---- MODULE Spec2Model ----
(***************************************************************************)
(* Active-learning control plane of the AllCare back server:               *)
(*   - model registry (model_registry.py), auto promotion                  *)
(*     (auto_promote.py) and the retrain run (retrain_model.py);           *)
(*   - the per-user case ledger (back.py);                                 *)
(*   - the label pool (labels_pool.py);                                    *)
(*   - the per-user case-id allocator (back.py);                           *)
(*   - uncertainty sampling (AL.py of the Always back server).             *)
(* Each component has its own specification over the shared variables.     *)
(***************************************************************************)
EXTENDS Integers, Sequences, FiniteSets, TLC

VARIABLES
    registry,         \* content of model_registry.json: [models, current_production]
    files,            \* model files that exist under candidates/ and archive/
    production_file,  \* version whose weights production/model.pt holds (None: no file)
    events,           \* content of event_log.jsonl
    clock,            \* datetime.now() as a logical clock
    retrain,          \* the retrain run: position, version_id, loaded registry copy
    last,             \* the last call that acted on its target, and what it returned
    ledger,           \* per-user metadata.jsonl
    uploads,          \* images saved so far (each gets a fresh image_id)
    calls,            \* requests so far that went on to rewrite a ledger or the pool
    handlers,         \* ledger request handlers between their read and their write
    pool,             \* content of labels_pool.jsonl
    callers,          \* label pool callers between their load and their save
    sample_cases,     \* AL.py: the cases handed to select_uncertain_samples
    top_k,            \* AL.py: its top_k argument
    selected,         \* AL.py: the list it returned (NotSelected before the call)
    generated,        \* the ids generate_version_id returned to direct callers
    counters,         \* per-user case_counter.json: last_case_id (None: no file)
    case_id_lock,     \* _CASE_ID_LOCK: the handler holding it (NoHolder: free)
    allocators,       \* /cases/next-id and /cases/release-id handlers in the lock
    answers,          \* per user, what these two endpoints answered, in order
    jobs,             \* pids of the retrain processes POST /model/retrain started, alive
    inline,           \* TRUE while trigger_retrain runs retrain_model in its handler
    launched,         \* retrain processes and handler runs started so far
    cfg_caller,       \* the training_cfg argument of retrain_model (NoConfig: None)
    cfg_file,         \* content of the active training config file (NoConfig: no file)
    cfg_used,         \* the hyperparameters retrain_model trains with (NoConfig: not run)
    class_sizes,      \* retrain_model.py: the class_sizes of _allocate_quota_per_class
    total_quota,      \* retrain_model.py: its total_quota argument
    per_class_quota   \* retrain_model.py: the dict it returned (NoQuota before the call)

vars == <<registry, files, production_file, events, clock, retrain, last,
          ledger, handlers, pool, callers, sample_cases, top_k, selected,
          generated, counters, case_id_lock, allocators, answers,
          jobs, inline, launched, cfg_caller, cfg_file, cfg_used,
          class_sizes, total_quota, per_class_quota>>

regVars    == <<registry, files, production_file, events, clock, retrain>>
ledgerVars == <<ledger, handlers, uploads, calls>>
poolVars   == <<pool, callers>>
selectVars == <<sample_cases, top_k, selected>>
versionVars == <<generated>>
allocVars  == <<counters, case_id_lock, allocators, answers>>
jobVars    == <<jobs, inline, launched>>
cfgVars    == <<cfg_caller, cfg_file, cfg_used>>
quotaVars  == <<class_sizes, total_quota, per_class_quota>>
extVars    == <<selectVars, versionVars, allocVars, jobVars, cfgVars, quotaVars>>

----------------------------------------------------------------------------
(* Bounds *)

MaxSeq == 2          \* version sequence numbers of one day: 1..MaxSeq
MaxClock == 3        \* registrations that take a created_at timestamp
MaxEvents == 4       \* records the event log may hold
MaxImages == 1       \* images uploaded through /check-image
MaxCalls == 2        \* requests that rewrite a ledger or the pool
MaxSamples == 3      \* cases handed to select_uncertain_samples
MaxTopK == 2         \* top_k of select_uncertain_samples: 1..MaxTopK
MaxGenerated == 4    \* direct generate_version_id calls
MaxRequests == 3     \* /cases/next-id and /cases/release-id requests
MaxPoolOps == 4      \* label pool calls of the one-caller pool
MaxCaseCalls == 3    \* case requests, one at a time, that rewrite a ledger
MaxLaunched == 3     \* retrain processes and handler runs started
MaxClasses == 3      \* classes of _allocate_quota_per_class: 0..MaxClasses
MaxClassSize == 3    \* samples of one class: 0..MaxClassSize
MaxQuota == 10       \* total_quota of _allocate_quota_per_class: 0..MaxQuota

----------------------------------------------------------------------------
(* model_registry.py *)

None == 0
Versions == 1..MaxSeq

TRAINING   == "training"
EVALUATING == "evaluating"
PRODUCTION == "production"
ARCHIVED   == "archived"
FAILED     == "failed"
ModelStatus == {TRAINING, EVALUATING, PRODUCTION, ARCHIVED, FAILED}

\* metrics: the empty dict, or a dict whose val_accuracy is the number (percent)
NoMetrics == -1
Metrics == {80, 85}
\* min_improvement values (percent)
Thresholds == {0, 5}

\* <AL_CANDIDATES_DIR>/<version_id>/<name> and <AL_ARCHIVE_DIR>/<version_id>/<name>
CandidatePath(v, name) == [dir |-> "candidates", ver |-> v, name |-> name]
ArchivePath(v, name)   == [dir |-> "archive", ver |-> v, name |-> name]
InProductionDir(path)  == path.dir = "production"

EmptyRegistry == [models |-> <<>>, current_production |-> None]

HasModel(reg, v) == v \in DOMAIN reg.models

\* generate_version_id: sequence number one above the largest of the day
SeqMax(S) == CHOOSE m \in S : \A x \in S : x <= m
generate_version_id(reg) ==
    IF DOMAIN reg.models = {} THEN 1 ELSE SeqMax(DOMAIN reg.models) + 1

register_model(reg, v, path, status, now) ==
    [reg EXCEPT !.models =
        (v :> [status |-> status, created_at |-> now, metrics |-> NoMetrics,
               path |-> path, production_path |-> FALSE]) @@ @]

update_model_status(reg, v, status) ==
    IF ~HasModel(reg, v) THEN reg
    ELSE [reg EXCEPT !.models[v].status = status]

update_model_metrics(reg, v, metrics) ==
    IF ~HasModel(reg, v) THEN reg
    ELSE [reg EXCEPT !.models[v].metrics = metrics]

\* version id of the production model, None if there is none
get_production_model(reg) ==
    IF reg.current_production = None \/ ~HasModel(reg, reg.current_production)
    THEN None ELSE reg.current_production

get_model(reg, v) == IF HasModel(reg, v) THEN v ELSE None

\* a promote_model that archives the old production without moving its file
PromoteArchiveOld_KeepFile(reg, fs) ==
    LET old == reg.current_production IN
    IF old # None /\ HasModel(reg, old)
    THEN [registry |-> [reg EXCEPT !.models[old].status = ARCHIVED], files |-> fs]
    ELSE [registry |-> reg, files |-> fs]

\* promote_model: the registry, the files and production/model.pt after the call
PromoteArchiveOld(reg, fs) ==
    LET old == reg.current_production IN
    IF old # None /\ HasModel(reg, old)
    THEN LET old_path == reg.models[old].path
             archive_path == ArchivePath(old, old_path.name)
             r1 == [reg EXCEPT !.models[old].status = ARCHIVED]
         IN IF old_path \in fs
            THEN [registry |-> [r1 EXCEPT !.models[old].path = archive_path],
                  files |-> (fs \ {old_path}) \cup {archive_path}]
            ELSE [registry |-> r1, files |-> fs]
    ELSE [registry |-> reg, files |-> fs]

promote_model(reg, fs, pf, v) ==
    IF ~HasModel(reg, v)
    THEN [ok |-> FALSE, registry |-> reg, files |-> fs, production_file |-> pf]
    ELSE LET a == PromoteArchiveOld(reg, fs)
             r2 == [a.registry EXCEPT !.models[v].status = PRODUCTION,
                                      !.current_production = v]
             current_path == r2.models[v].path
         IN IF current_path \in a.files /\ ~InProductionDir(current_path)
            THEN [ok |-> TRUE,
                  registry |-> [r2 EXCEPT !.models[v].production_path = TRUE],
                  files |-> a.files, production_file |-> v]
            ELSE [ok |-> TRUE, registry |-> r2, files |-> a.files,
                  production_file |-> pf]

\* a rollback_to that accepts a model of any status
rollback_to_AnyStatus(reg, fs, pf, v) ==
    IF ~HasModel(reg, v)
    THEN [ok |-> FALSE, registry |-> reg, files |-> fs, production_file |-> pf]
    ELSE promote_model(reg, fs, pf, v)

rollback_to(reg, fs, pf, v) ==
    IF ~HasModel(reg, v)
       \/ reg.models[v].status \notin {ARCHIVED, PRODUCTION}
    THEN [ok |-> FALSE, registry |-> reg, files |-> fs, production_file |-> pf]
    ELSE promote_model(reg, fs, pf, v)

\* list_models(status): versions with that status, newest created_at first
list_models(reg, status) ==
    {v \in DOMAIN reg.models : reg.models[v].status = status}

MostRecent(reg, S) ==
    CHOOSE v \in S : \A w \in S : reg.models[w].created_at <= reg.models[v].created_at

delete_model(reg, fs, v) ==
    IF ~HasModel(reg, v) \/ reg.current_production = v
    THEN [ok |-> FALSE, registry |-> reg, files |-> fs]
    ELSE [ok |-> TRUE,
          registry |-> [reg EXCEPT !.models =
                          [w \in DOMAIN reg.models \ {v} |-> reg.models[w]]],
          files |-> fs \ {reg.models[v].path}]

----------------------------------------------------------------------------
(* event_log.py *)

Event(type, v, from) == [type |-> type, version_id |-> v, from_version |-> from]
\* a log_event that writes the record at the head of the file
log_event_AtHead(log, type, v, from) == <<Event(type, v, from)>> \o log

log_event(log, type, v, from) == Append(log, Event(type, v, from))

----------------------------------------------------------------------------
(* auto_promote.py *)

\* metrics.get("val_accuracy", 0.0)
MetricValue(m) == IF m = NoMetrics THEN 0 ELSE m

\* compare_models: <<should_promote, candidate_value, production_value>>
compare_models(reg, candidate_id, threshold) ==
    LET candidate_metrics == reg.models[candidate_id].metrics
        prod == get_production_model(reg)
    IN IF candidate_metrics = NoMetrics THEN <<FALSE, 0, 0>>
       ELSE IF prod = None \/ reg.models[prod].metrics = NoMetrics
            THEN <<TRUE, MetricValue(candidate_metrics), 0>>
            ELSE <<MetricValue(candidate_metrics)
                      > MetricValue(reg.models[prod].metrics) + threshold,
                   MetricValue(candidate_metrics),
                   MetricValue(reg.models[prod].metrics)>>

----------------------------------------------------------------------------
(* labels_pool.py *)

Paths == {"p1", "p2"}
PathLists == {<<"p1">>, <<"p1", "p2">>, <<"p2">>}
Labels == {"mel", "nv"}
PoolCases == {"c1", "c2"}
PoolUsers == {"user1", "user2"}

Range(s) == {s[i] : i \in DOMAIN s}
AppendNew_Always(s, x) == Append(s, x)
AppendNew(s, x) == IF x \in Range(s) THEN s ELSE Append(s, x)

\* index of the first record of the case, 0 when there is none
FirstIndex(labels, case_id) ==
    IF \E i \in DOMAIN labels : labels[i].case_id = case_id
    THEN CHOOSE i \in DOMAIN labels :
            /\ labels[i].case_id = case_id
            /\ \A j \in DOMAIN labels : labels[j].case_id = case_id => i <= j
    ELSE 0

\* _normalize_image_retrain_history: every image path of the record has a list
normalize_image_retrain_history(label) ==
    LET history == label.image_retrain_history
        keys == DOMAIN history \cup Range(label.image_paths)
    IN [p \in keys |-> IF p \in DOMAIN history THEN history[p] ELSE <<>>]

\* a record that takes nothing from the record it replaces
label_entry_Fresh(labels, case_id, image_paths, correct_label, user_id, now) ==
    [case_id |-> case_id,
     image_paths |-> image_paths,
     correct_label |-> correct_label,
     user_id |-> user_id,
     created_at |-> now,
     updated_at |-> now,
     used_in_models |-> <<>>,
     image_retrain_history |-> [p \in Range(image_paths) |-> <<>>]]

\* the record add_label builds from the pool it loaded
label_entry(labels, case_id, image_paths, correct_label, user_id, now) ==
    LET existing_idx == FirstIndex(labels, case_id) IN
    [case_id |-> case_id,
     image_paths |-> image_paths,
     correct_label |-> correct_label,
     user_id |-> user_id,
     created_at |-> IF existing_idx = 0 THEN now ELSE labels[existing_idx].created_at,
     updated_at |-> now,
     used_in_models |-> IF existing_idx = 0 THEN <<>>
                        ELSE labels[existing_idx].used_in_models,
     image_retrain_history |->
        IF existing_idx = 0 THEN [p \in Range(image_paths) |-> <<>>]
        ELSE normalize_image_retrain_history(labels[existing_idx])]

\* mark_labels_used applied to the loaded pool, case_ids given
MarkOne(label, version_id) ==
    LET image_history == normalize_image_retrain_history(label) IN
    [label EXCEPT
        !.used_in_models = AppendNew(@, version_id),
        !.image_retrain_history =
            [p \in DOMAIN image_history |->
                IF p \in Range(label.image_paths)
                THEN AppendNew(image_history[p], version_id)
                ELSE image_history[p]]]

mark_labels_used(labels, version_id, case_ids) ==
    [i \in DOMAIN labels |->
        IF labels[i].case_id \in case_ids
        THEN MarkOne(labels[i], version_id) ELSE labels[i]]

\* delete_label applied to the loaded pool
delete_label(labels, case_id) ==
    LET Keep(l) == l.case_id # case_id IN SelectSeq(labels, Keep)

get_unused_labels(labels) ==
    LET Unused(l) == l.used_in_models = <<>> IN SelectSeq(labels, Unused)

get_unused_label_count(labels) == Len(get_unused_labels(labels))

get_label_by_case(labels, case_id) == FirstIndex(labels, case_id)

\* get_labels_for_training: the case ids, one element per image of each record
TrainingCaseIds(labels) == {labels[i].case_id : i \in DOMAIN labels}

----------------------------------------------------------------------------
(* Local state of the processes *)

IdleRetrain == [pc |-> "idle", version_id |-> None, metrics |-> NoMetrics,
                loaded |-> EmptyRegistry]

\* the result a call returned: success, promoted, previous_production
Result(op, v, ok, promoted, previous, auto) ==
    [op |-> op, version_id |-> v, ok |-> ok, promoted |-> promoted,
     previous_production |-> previous, auto |-> auto]

NoCall == Result("none", None, TRUE, FALSE, None, FALSE)

\* select_uncertain_samples was not called
NotSelected == [done |-> FALSE, samples |-> <<>>]

IdleSelect ==
    /\ sample_cases = <<>>
    /\ top_k = 1
    /\ selected = NotSelected

\* no direct generate_version_id call was made
IdleVersion == generated = <<>>

\* _CASE_ID_LOCK is free
NoHolder == "free"

\* no allocator request was made
IdleAlloc ==
    /\ counters = <<>>
    /\ case_id_lock = NoHolder
    /\ allocators = <<>>
    /\ answers = <<>>

\* no retrain request was made
IdleJobs ==
    /\ jobs = {}
    /\ inline = FALSE
    /\ launched = 0

\* _allocate_quota_per_class was not called
NoQuota == <<-1>>
IdleQuota ==
    /\ class_sizes = <<>>
    /\ total_quota = 0
    /\ per_class_quota = NoQuota

\* retrain_model was not called
\* a training configuration that is absent (None, no file, not run) or given
NoConfig == [present |-> FALSE, cfg |-> <<>>]
Config(d) == [present |-> TRUE, cfg |-> d]
IdleConfig ==
    /\ cfg_caller = NoConfig
    /\ cfg_file = NoConfig
    /\ cfg_used = NoConfig

----------------------------------------------------------------------------
(* auto_promote.py: the admin calls, each one request handler *)

\* manual_promote(version_id)
ManualPromote(v) ==
    LET old_version == get_production_model(registry)
        r == promote_model(registry, files, production_file, v)
    IN /\ IF get_model(registry, v) = None
          THEN UNCHANGED <<registry, files, production_file, events, last>>
          ELSE /\ Len(events) < MaxEvents
               /\ registry' = r.registry
               /\ files' = r.files
               /\ production_file' = r.production_file
               /\ events' = log_event(events, "model_promoted", v, None)
               /\ last' = Result("manual_promote", v, TRUE, TRUE, old_version, FALSE)
       /\ UNCHANGED <<clock, retrain, ledgerVars, poolVars, extVars>>

\* an evaluate_and_promote that promotes whatever auto_promote says
EvaluateAndPromote_IgnoreAuto(v, min_improvement, auto_promote) ==
    /\ get_model(registry, v) # None
    /\ compare_models(registry, v, min_improvement)[1]
    /\ Len(events) < MaxEvents
    /\ LET r == promote_model(registry, files, production_file, v)
       IN /\ registry' = r.registry
          /\ files' = r.files
          /\ production_file' = r.production_file
          /\ events' = log_event(events, "model_promoted", v, None)
          /\ last' = Result("evaluate_and_promote", v, TRUE, TRUE,
                            get_production_model(registry), auto_promote)
    /\ UNCHANGED <<clock, retrain, ledgerVars, poolVars, extVars>>

\* evaluate_and_promote(version_id, "val_accuracy", min_improvement, auto_promote)
EvaluateAndPromote(v, min_improvement, auto_promote) ==
    /\ IF get_model(registry, v) = None
       THEN UNCHANGED <<registry, files, production_file, events, last>>
       ELSE LET should_promote == compare_models(registry, v, min_improvement)[1]
                old_version == get_production_model(registry)
                r == promote_model(registry, files, production_file, v)
            IN IF should_promote /\ auto_promote
               THEN /\ Len(events) < MaxEvents
                    /\ registry' = r.registry
                    /\ files' = r.files
                    /\ production_file' = r.production_file
                    /\ events' = log_event(events, "model_promoted", v, None)
                    /\ last' = Result("evaluate_and_promote", v, TRUE, TRUE,
                                      old_version, auto_promote)
               ELSE IF ~should_promote
               THEN /\ registry' = update_model_status(registry, v, ARCHIVED)
                    /\ last' = Result("evaluate_and_promote", v, TRUE, FALSE,
                                      None, auto_promote)
                    /\ UNCHANGED <<files, production_file, events>>
               ELSE /\ last' = Result("evaluate_and_promote", v, TRUE, FALSE,
                                      None, auto_promote)
                    /\ UNCHANGED <<registry, files, production_file, events>>
    /\ UNCHANGED <<clock, retrain, ledgerVars, poolVars, extVars>>

\* the version trigger_rollback rolls back to: to_version when given,
\* otherwise the most recent archived model; None when there is none
RollbackTarget(reg, to_version) ==
    IF to_version # None THEN get_model(reg, to_version)
    ELSE IF list_models(reg, ARCHIVED) = {} THEN None
    ELSE MostRecent(reg, list_models(reg, ARCHIVED))

\* trigger_rollback(to_version)
TriggerRollback(to_version) ==
    LET from_version == get_production_model(registry)
        target == RollbackTarget(registry, to_version)
        r == rollback_to(registry, files, production_file, target)
    IN /\ IF from_version = None \/ target = None \/ ~r.ok
          THEN UNCHANGED <<registry, files, production_file, events, last>>
          ELSE /\ Len(events) < MaxEvents
               /\ registry' = r.registry
               /\ files' = r.files
               /\ production_file' = r.production_file
               /\ events' = log_event(events, "model_rollback", target, from_version)
               /\ last' = Result("trigger_rollback", target, TRUE, TRUE,
                                 from_version, FALSE)
       /\ UNCHANGED <<clock, retrain, ledgerVars, poolVars, extVars>>

\* delete_model(version_id)
DeleteModel(v) ==
    LET r == delete_model(registry, files, v)
    IN /\ registry' = r.registry
       /\ files' = r.files
       /\ UNCHANGED <<production_file, events, clock, retrain, last,
                      ledgerVars, poolVars, extVars>>

----------------------------------------------------------------------------
(* retrain_model.py: retrain_model, one step per registry, pool or log access *)

FinalName == "final.pt"      \* "[YYYY-MM-DD] - <architecture>.pt"
PendingName == "pending.pt"

\* validate_retrain_architecture .. generate_version_id
RetrainStart(arch_valid) ==
    /\ retrain.pc = "idle"
    /\ IF ~arch_valid
       THEN UNCHANGED <<retrain, last>>
       ELSE /\ generate_version_id(registry) <= MaxSeq
            /\ retrain' = [IdleRetrain EXCEPT
                             !.pc = "collect",
                             !.version_id = generate_version_id(registry)]
            /\ UNCHANGED last
    /\ UNCHANGED <<registry, files, production_file, events, clock,
                   ledgerVars, poolVars, extVars>>

\* collect_labeled_samples .. the RETRAIN_MIN_NEW_LABELS test
RetrainCollect(enough) ==
    /\ retrain.pc = "collect"
    /\ IF enough
       THEN /\ retrain' = [retrain EXCEPT !.pc = "register"]
            /\ UNCHANGED last
       ELSE /\ retrain' = IdleRetrain
            /\ UNCHANGED last
    /\ UNCHANGED <<registry, files, production_file, events, clock,
                   ledgerVars, poolVars, extVars>>

\* register_model(version_id, status = training)
RetrainRegister ==
    /\ retrain.pc = "register"
    /\ clock < MaxClock
    /\ registry' = register_model(registry, retrain.version_id,
                        CandidatePath(retrain.version_id, PendingName),
                        TRAINING, clock)
    /\ clock' = clock + 1
    /\ retrain' = [retrain EXCEPT !.pc = "log_started"]
    /\ UNCHANGED <<files, production_file, events, last, ledgerVars, poolVars, extVars>>

\* event_log.log_training_started
RetrainLogStarted ==
    /\ retrain.pc = "log_started"
    /\ Len(events) < MaxEvents
    /\ events' = log_event(events, "training_started", retrain.version_id, None)
    /\ retrain' = [retrain EXCEPT !.pc = "training"]
    /\ UNCHANGED <<registry, files, production_file, clock, last,
                   ledgerVars, poolVars, extVars>>

\* the try block up to torch.save: the weights are written, or an exception
RetrainTrain(success, val_accuracy) ==
    /\ retrain.pc = "training"
    /\ IF success
       THEN /\ files' = files \cup {CandidatePath(retrain.version_id, FinalName)}
            /\ retrain' = [retrain EXCEPT !.pc = "load", !.metrics = val_accuracy]
       ELSE /\ retrain' = [retrain EXCEPT !.pc = "log_failed"]
            /\ UNCHANGED files
    /\ UNCHANGED <<registry, production_file, events, clock, last,
                   ledgerVars, poolVars, extVars>>

\* registry = model_registry._load_registry()
RetrainLoad ==
    /\ retrain.pc = "load"
    /\ retrain' = [retrain EXCEPT !.pc = "update", !.loaded = registry]
    /\ UNCHANGED <<registry, files, production_file, events, clock, last,
                   ledgerVars, poolVars, extVars>>

\* the loaded registry with the final details of the version
FinalDetails(reg, v, metrics) ==
    [reg EXCEPT !.models[v].path = CandidatePath(v, FinalName),
                !.models[v].metrics = metrics,
                !.models[v].status = EVALUATING]

\* the final details are written: _save_registry(registry) of the loaded copy,
\* or a new registration when the loaded copy has no entry for the version
RetrainUpdate ==
    /\ retrain.pc = "update"
    /\ IF HasModel(retrain.loaded, retrain.version_id)
       THEN /\ registry' = FinalDetails(retrain.loaded, retrain.version_id,
                                        retrain.metrics)
            /\ UNCHANGED clock
       ELSE /\ clock < MaxClock
            /\ registry' = update_model_metrics(
                              register_model(registry, retrain.version_id,
                                  CandidatePath(retrain.version_id, FinalName),
                                  EVALUATING, clock),
                              retrain.version_id, retrain.metrics)
            /\ clock' = clock + 1
    /\ retrain' = [retrain EXCEPT !.pc = "ensure", !.loaded = EmptyRegistry]
    /\ UNCHANGED <<files, production_file, events, last, ledgerVars, poolVars, extVars>>

\* update_model_status(version_id, evaluating): "not left as training"
RetrainEnsure ==
    /\ retrain.pc = "ensure"
    /\ registry' = update_model_status(registry, retrain.version_id, EVALUATING)
    /\ retrain' = [retrain EXCEPT !.pc = "mark"]
    /\ UNCHANGED <<files, production_file, events, clock, last,
                   ledgerVars, poolVars, extVars>>

\* labels_pool.mark_labels_used(version_id, case_ids)
RetrainMark ==
    /\ retrain.pc = "mark"
    /\ pool' = IF TrainingCaseIds(pool) # {}
               THEN mark_labels_used(pool, retrain.version_id, TrainingCaseIds(pool))
               ELSE pool
    /\ retrain' = [retrain EXCEPT !.pc = "log_completed"]
    /\ UNCHANGED <<registry, files, production_file, events, clock, last,
                   ledgerVars, callers, extVars>>

\* event_log.log_training_completed, return success
RetrainLogCompleted ==
    /\ retrain.pc = "log_completed"
    /\ Len(events) < MaxEvents
    /\ events' = log_event(events, "training_completed", retrain.version_id, None)
    /\ retrain' = IdleRetrain
    /\ UNCHANGED <<registry, files, production_file, clock, last,
                   ledgerVars, poolVars, extVars>>

\* except: event_log.log_training_failed
RetrainLogFailed ==
    /\ retrain.pc = "log_failed"
    /\ Len(events) < MaxEvents
    /\ events' = log_event(events, "training_failed", retrain.version_id, None)
    /\ retrain' = [retrain EXCEPT !.pc = "set_failed"]
    /\ UNCHANGED <<registry, files, production_file, clock, last,
                   ledgerVars, poolVars, extVars>>

\* an except block that returns failure without touching the registry
RetrainSetFailed_KeepStatus ==
    /\ retrain.pc = "set_failed"
    /\ retrain' = IdleRetrain
    /\ UNCHANGED <<registry, files, production_file, events, clock, last,
                   ledgerVars, poolVars, extVars>>

\* except: update_model_status(version_id, failed), return failure
RetrainSetFailed ==
    /\ retrain.pc = "set_failed"
    /\ registry' = update_model_status(registry, retrain.version_id, FAILED)
    /\ retrain' = IdleRetrain
    /\ UNCHANGED <<files, production_file, events, clock, last,
                   ledgerVars, poolVars, extVars>>

----------------------------------------------------------------------------
(* The registry specification: the retrain run and the admin calls *)

InitRegistry ==
    /\ registry = EmptyRegistry
    /\ files = {}
    /\ production_file = None
    /\ events = <<>>
    /\ clock = 0
    /\ retrain = IdleRetrain
    /\ last = NoCall
    /\ ledger = <<>>
    /\ handlers = <<>>
    /\ uploads = 0
    /\ calls = 0
    /\ IdleSelect
    /\ IdleVersion
    /\ IdleAlloc
    /\ IdleJobs
    /\ IdleConfig
    /\ IdleQuota
    /\ pool = <<>>
    /\ callers = <<>>

NextRegistry ==
    \/ \E a \in BOOLEAN : RetrainStart(a)
    \/ \E e \in BOOLEAN : RetrainCollect(e)
    \/ RetrainRegister
    \/ RetrainLogStarted
    \/ \E ok \in BOOLEAN, acc \in Metrics : RetrainTrain(ok, acc)
    \/ RetrainLoad
    \/ RetrainUpdate
    \/ RetrainEnsure
    \/ RetrainMark
    \/ RetrainLogCompleted
    \/ RetrainLogFailed
    \/ RetrainSetFailed
    \/ \E v \in Versions : ManualPromote(v)
    \/ \E v \in Versions, t \in Thresholds, auto \in BOOLEAN :
          EvaluateAndPromote(v, t, auto)
    \/ \E v \in Versions \cup {None} : TriggerRollback(v)
    \/ \E v \in Versions : DeleteModel(v)

SpecRegistry == InitRegistry /\ [][NextRegistry]_vars

----------------------------------------------------------------------------
(* The serial deployment: /admin/retrain/trigger runs retrain_model inside   *)
(* its handler, so no admin call runs between the steps of a retrain run    *)

\* the label pool a retrain run may find: empty, or one unused label
SerialPools == {<<>>, <<label_entry(<<>>, "c1", <<"p1">>, "mel", "user1", 0)>>}

InitSerial ==
    /\ registry = EmptyRegistry
    /\ files = {}
    /\ production_file = None
    /\ events = <<>>
    /\ clock = 0
    /\ retrain = IdleRetrain
    /\ last = NoCall
    /\ ledger = <<>>
    /\ handlers = <<>>
    /\ uploads = 0
    /\ calls = 0
    /\ IdleSelect
    /\ IdleVersion
    /\ IdleAlloc
    /\ IdleJobs
    /\ IdleConfig
    /\ IdleQuota
    /\ pool \in SerialPools
    /\ callers = <<>>

\* the admin calls, taken only while no retrain run is in progress
SerialAdmin ==
    /\ retrain.pc = "idle"
    /\ \/ \E v \in Versions : ManualPromote(v)
       \/ \E v \in Versions, t \in Thresholds, auto \in BOOLEAN :
             EvaluateAndPromote(v, t, auto)
       \/ \E v \in Versions \cup {None} : TriggerRollback(v)
       \/ \E v \in Versions : DeleteModel(v)

NextSerial ==
    \/ \E a \in BOOLEAN : RetrainStart(a)
    \/ \E e \in BOOLEAN : RetrainCollect(e)
    \/ RetrainRegister
    \/ RetrainLogStarted
    \/ \E ok \in BOOLEAN, acc \in Metrics : RetrainTrain(ok, acc)
    \/ RetrainLoad
    \/ RetrainUpdate
    \/ RetrainEnsure
    \/ RetrainMark
    \/ RetrainLogCompleted
    \/ RetrainLogFailed
    \/ RetrainSetFailed
    \/ SerialAdmin

SpecSerial == InitSerial /\ [][NextSerial]_vars

----------------------------------------------------------------------------
(* Properties of the registry specification *)

StatusOf(reg, v) == reg.models[v].status
InProduction(reg) == {v \in DOMAIN reg.models : StatusOf(reg, v) = PRODUCTION}

\* C1: at most one version has status production; exactly one iff
\* current_production is non-null, and it is the one current_production names.
C1_SingleProduction ==
    /\ Cardinality(InProduction(registry)) <= 1
    /\ (Cardinality(InProduction(registry)) = 1) <=> (registry.current_production # None)
    /\ \A v \in InProduction(registry) : registry.current_production = v

\* a call that ran promote_model(v) and got true; the conjuncts before the
\* disjunction follow from it (every promoting call logs an event and returns
\* promoted = true) and are tested first
PromoteCall(v) ==
    /\ last'.promoted
    /\ last'.version_id = v
    /\ retrain' = retrain
    /\ events' # events
    /\ \/ ManualPromote(v)
       \/ \E t \in Thresholds : EvaluateAndPromote(v, t, TRUE)
       \/ \E to \in Versions \cup {None} :
             TriggerRollback(to) /\ RollbackTarget(registry, to) = v

\* the old production X is archived and its file is in archive/<X>/
ArchivedWithFile(X) ==
    /\ StatusOf(registry', X) = ARCHIVED
    /\ registry'.models[X].path = ArchivePath(X, registry.models[X].path.name)
    /\ registry'.models[X].path \in files'

AllowedTransitions ==
    {<<TRAINING, EVALUATING>>, <<TRAINING, FAILED>>, <<EVALUATING, PRODUCTION>>,
     <<EVALUATING, ARCHIVED>>, <<PRODUCTION, ARCHIVED>>, <<ARCHIVED, PRODUCTION>>}

\* C4: every status change of a version follows the per-version state machine
\* training -> evaluating | failed, evaluating -> production | archived,
\* production -> archived, archived -> production.
C4_StateMachine ==
    [][\A v \in DOMAIN registry.models \cap DOMAIN registry'.models :
          \/ StatusOf(registry', v) = StatusOf(registry, v)
          \/ <<StatusOf(registry, v), StatusOf(registry', v)>> \in AllowedTransitions]_vars

\* C5: current_production never references a version whose status is
\* training or evaluating.
C5_ProductionNotInTraining ==
    get_production_model(registry) # None =>
        StatusOf(registry, get_production_model(registry)) \notin {TRAINING, EVALUATING}

\* C6: the retrain run's registry write leaves every mutation completed by
\* another call in place: only its own version's entry changes.
C6_NoLostUpdate ==
    [][RetrainUpdate =>
          /\ registry'.current_production = registry.current_production
          /\ \A v \in DOMAIN registry.models \ {retrain.version_id} :
                HasModel(registry', v) /\ registry'.models[v] = registry.models[v]]_vars

\* the call promoted v: v is production and model_promoted is logged
Promoted(v) ==
    /\ registry'.current_production = v
    /\ StatusOf(registry', v) = PRODUCTION
    /\ events' = Append(events, Event("model_promoted", v, None))
    /\ last'.promoted
    /\ last'.previous_production = get_production_model(registry)

\* C9: evaluate_and_promote(v, metric, min_improvement, auto = true) on a
\* candidate v promotes v exactly when no production model exists or
\* candidate metric - production metric >= min_improvement.
C9_PromoteIffImproved ==
    [][\A v \in Versions, t \in Thresholds :
          (/\ EvaluateAndPromote(v, t, TRUE)
           /\ HasModel(registry, v)
           /\ StatusOf(registry, v) = EVALUATING
           /\ get_production_model(registry) # v)
          => (Promoted(v) <=>
                \/ get_production_model(registry) = None
                \/ MetricValue(registry.models[v].metrics)
                     - MetricValue(registry.models[get_production_model(registry)].metrics)
                   >= t)]_vars

\* a call evaluate_and_promote(v, metric, t, auto_promote = false); the
\* conjuncts before the call follow from it (evaluate_and_promote removes no
\* registry entry) and are tested first
ReportOnlyCall(v, t) ==
    /\ last'.op = "evaluate_and_promote"
    /\ last'.version_id = v
    /\ ~last'.auto
    /\ retrain' = retrain
    /\ DOMAIN registry'.models = DOMAIN registry.models
    /\ EvaluateAndPromote(v, t, FALSE)

\* C10 as stated: evaluate_and_promote with auto = false leaves the registry,
\* the files and the event log unchanged.
C10_Original ==
    [][\A v \in Versions, t \in Thresholds :
          ReportOnlyCall(v, t) =>
             UNCHANGED <<registry, files, production_file, events>>]_vars

\* C10 amended: evaluate_and_promote with auto = false never promotes and
\* leaves the files, the event log and current_production unchanged; the
\* registry is unchanged when the candidate meets the threshold, and otherwise
\* differs only in the candidate's status, which is set to archived.
C10_ReportOnly ==
    [][\A v \in Versions, t \in Thresholds :
          ReportOnlyCall(v, t) =>
             /\ UNCHANGED <<files, production_file, events>>
             /\ ~last'.promoted
             /\ IF HasModel(registry, v) /\ ~compare_models(registry, v, t)[1]
                THEN registry' = [registry EXCEPT !.models[v].status = ARCHIVED]
                ELSE registry' = registry]_vars

\* a report-only call was made for a candidate that meets the threshold
C10_Witness ==
    /\ last.op = "evaluate_and_promote"
    /\ last.ok /\ ~last.auto /\ ~last.promoted
    /\ HasModel(registry, last.version_id)
    /\ StatusOf(registry, last.version_id) = EVALUATING
    /\ get_production_model(registry) \notin {None, last.version_id}
    /\ compare_models(registry, last.version_id, 0)[1]

\* the training_completed / training_failed events of version v in a log
TerminalEvents(log, v) ==
    {i \in DOMAIN log : /\ log[i].version_id = v
                        /\ log[i].type \in {"training_completed", "training_failed"}}

StartedEvents(log, v) ==
    {i \in DOMAIN log : log[i].version_id = v /\ log[i].type = "training_started"}

\* at most one terminal event per version, after a training_started of it
OneTerminalEvent ==
    \A v \in Versions :
       /\ Cardinality(TerminalEvents(events, v)) <= 1
       /\ \A i \in TerminalEvents(events, v) :
             \E j \in StartedEvents(events, v) : j < i

\* the steps of the run of version v that log its events or end it
RunLogsStarted == retrain.pc = "log_started" /\ retrain'.pc = "training"
RunLogsCompleted == retrain.pc = "log_completed" /\ retrain'.pc = "idle"
RunSetsFailed == retrain.pc = "set_failed" /\ retrain'.pc = "idle"

\* C14: for every version a retrain run registers, the entry with status
\* training exists when training_started is logged; when training_completed
\* is logged the entry has status evaluating and every label of the pool is
\* marked used by the version; a run that logged training_failed leaves the
\* entry with status failed; and the event log holds exactly one terminal
\* event for the version once its run has ended, never more than one, and
\* only after its training_started.
C14_RunEvents ==
    /\ []OneTerminalEvent
    /\ [][/\ RunLogsStarted =>
               /\ HasModel(registry, retrain.version_id)
               /\ StatusOf(registry, retrain.version_id) = TRAINING
          /\ RunLogsCompleted =>
               /\ HasModel(registry, retrain.version_id)
               /\ StatusOf(registry, retrain.version_id) = EVALUATING
               /\ \A i \in DOMAIN pool :
                     retrain.version_id \in Range(pool[i].used_in_models)
               /\ Cardinality(TerminalEvents(events', retrain.version_id)) = 1
          /\ RunSetsFailed =>
               /\ HasModel(registry', retrain.version_id)
               /\ StatusOf(registry', retrain.version_id) = FAILED
               /\ Cardinality(TerminalEvents(events', retrain.version_id)) = 1]_vars

\* the retrain call returns failure: it ends anywhere but after
\* log_training_completed (an invalid architecture ends it before it starts
\* and changes nothing)
RetrainReturnsFailure ==
    /\ retrain.pc \notin {"idle", "log_completed"}
    /\ retrain'.pc = "idle"

\* a call of manual_promote(v) or evaluate_and_promote(v, auto = true) whose
\* promote_model(v) returned true
PromotionSucceeds(v) ==
    /\ retrain' = retrain
    /\ HasModel(registry, v)
    /\ \/ ManualPromote(v)
       \/ \E t \in Thresholds :
             compare_models(registry, v, t)[1] /\ EvaluateAndPromote(v, t, TRUE)

\* a call of trigger_rollback(to) whose rollback_to returned true
RollbackSucceeds(to) ==
    /\ retrain' = retrain
    /\ get_production_model(registry) # None
    /\ RollbackTarget(registry, to) # None
    /\ TriggerRollback(to)

\* C13: every retrain call that returns failure appends training_failed, every
\* successful promotion (automatic or manual) appends model_promoted and every
\* successful rollback appends model_rollback to the event log.
C13_FailuresLogged ==
    [][/\ RetrainReturnsFailure =>
            \E i \in DOMAIN events' :
               events'[i] = Event("training_failed", retrain.version_id, None)
       /\ \A v \in Versions : PromotionSucceeds(v) =>
            events' = Append(events, Event("model_promoted", v, None))
       /\ \A to \in Versions \cup {None} : RollbackSucceeds(to) =>
            events' = Append(events, Event("model_rollback",
                                  RollbackTarget(registry, to),
                                  get_production_model(registry)))]_vars

\* v exists and is archived or in production
RollbackAccepts(reg, v) ==
    /\ HasModel(reg, v)
    /\ reg.models[v].status \in {ARCHIVED, PRODUCTION}

\* rollback_to(v) on the present registry: true exactly for an accepted v, and
\* a refusal returns the registry, the files and production/model.pt as they are
RollbackToGuarded ==
    \A v \in Versions \cup {None} :
        LET r == rollback_to(registry, files, production_file, v) IN
        /\ r.ok <=> RollbackAccepts(registry, v)
        /\ ~r.ok => /\ r.registry = registry
                    /\ r.files = files
                    /\ r.production_file = production_file

WasProduction(v) ==
    \E i \in DOMAIN events :
       /\ events[i].type \in {"model_promoted", "model_rollback"}
       /\ events[i].version_id = v

\* C37: the version that trigger_rollback selects when to_version is omitted
\* (the most recent archived model) was the production model at some earlier
\* time; it is never a candidate archived only for failing the threshold.
C37_RollbackToFormerProduction ==
    [][(/\ last'.op = "trigger_rollback"
        /\ events' # events
        /\ retrain' = retrain)
       => (TriggerRollback(None) => WasProduction(last'.version_id))]_vars

\* the step is a promote_model or rollback_to call that returned true: each
\* caller then appends a model_promoted or model_rollback record
PromotedStep ==
    /\ Len(events') = Len(events) + 1
    /\ events'[Len(events')].type \in {"model_promoted", "model_rollback"}

\* C38: after every successful promote_model(v) or rollback_to(v) the file
\* production/model.pt is a copy of v's model file, v's production_path names
\* it, and the file the copy was taken from is still in place.
C38_ProductionFileCopied ==
    [][PromotedStep
       => LET v == events'[Len(events')].version_id
          IN /\ production_file' = v
             /\ registry'.models[v].production_path
             /\ registry'.models[v].path \in files']_vars

----------------------------------------------------------------------------
(* The serial deployment with a retrain run that keeps going: retrain_model  *)
(* is straight-line code around a training loop of a fixed number of epochs *)

\* the steps of a run after generate_version_id
RunSteps ==
    \/ \E e \in BOOLEAN : RetrainCollect(e)
    \/ RetrainRegister
    \/ RetrainLogStarted
    \/ \E ok \in BOOLEAN, acc \in Metrics : RetrainTrain(ok, acc)
    \/ RetrainLoad
    \/ RetrainUpdate
    \/ RetrainEnsure
    \/ RetrainMark
    \/ RetrainLogCompleted
    \/ RetrainLogFailed
    \/ RetrainSetFailed

SpecRun == InitSerial /\ [][NextSerial]_vars /\ WF_vars(RunSteps)

\* the run has registered v with status training and the event log has room
\* for its two records
RunRegistered(v) ==
    /\ retrain.pc = "log_started"
    /\ retrain.version_id = v
    /\ Len(events) + 2 <= MaxEvents

\* the retrain call has returned and v is in status evaluating or failed
RunSettled(v) ==
    /\ retrain.pc = "idle"
    /\ HasModel(registry, v)
    /\ StatusOf(registry, v) \in {EVALUATING, FAILED}

\* the retrain call returns after it registered its version
RunReturns ==
    /\ retrain.pc \in {"log_completed", "set_failed"}
    /\ retrain'.pc = "idle"

\* C39: every version that a retrain run registers with status training
\* eventually reaches status evaluating or failed; once the retrain call has
\* returned, its version is no longer in status training.
C39_RunLeavesTraining ==
    /\ \A v \in Versions : RunRegistered(v) ~> RunSettled(v)
    /\ [][RunReturns
          => /\ HasModel(registry', retrain.version_id)
             /\ StatusOf(registry', retrain.version_id) \in {EVALUATING, FAILED}]_vars

\* one run has returned failure and left its version failed, another has
\* returned success and left its version evaluating
C39_Witness ==
    /\ retrain.pc = "idle"
    /\ \E v, w \in DOMAIN registry.models :
          /\ StatusOf(registry, v) = FAILED
          /\ Event("training_failed", v, None) \in Range(events)
          /\ StatusOf(registry, w) = EVALUATING
          /\ Event("training_completed", w, None) \in Range(events)

----------------------------------------------------------------------------
(* back.py: the per-user case ledger (metadata.jsonl) *)

NoValue == "null"
LedgerUsers == {"u1", "u2"}
Roles == {"gp", "doctor", "admin"}
Cases == {"10000"}
SummaryTypes == {"case", "uncertain", "reject"}
Handlers == {"h1", "h2"}
LedgerLabels == {"mel"}

\* datetime.now().isoformat(): the ledger is modelled without the passage of time
Now == "now"

\* the entry /check-image appends
ImageEntry(case_id, image_id, status) ==
    [case_id |-> case_id, entry_type |-> NoValue, status |-> status,
     image_id |-> image_id, created_at |-> Now, updated_at |-> NoValue,
     case_status |-> NoValue, case_entry_type |-> NoValue, case_updated_at |-> NoValue,
     image_ids |-> {}, correct_label |-> NoValue, annotated |-> FALSE]

\* the entry _log_case_entry builds from the payload
SummaryEntry(case_id, entry_type, payload_status, default_status) ==
    [case_id |-> case_id, entry_type |-> entry_type,
     status |-> IF payload_status \in {NoValue, ""} THEN default_status ELSE payload_status,
     image_id |-> None, created_at |-> Now, updated_at |-> NoValue,
     case_status |-> NoValue, case_entry_type |-> NoValue, case_updated_at |-> NoValue,
     image_ids |-> {}, correct_label |-> NoValue, annotated |-> FALSE]

IsSummary(e) == e.entry_type \in SummaryTypes

apply_case_summary_to_image(entry, case_entry) ==
    [entry EXCEPT !.case_status = case_entry.status,
                  !.case_entry_type = case_entry.entry_type,
                  !.case_updated_at = case_entry.created_at]

collect_image_ids(entries, case_id) ==
    {entries[i].image_id :
        i \in {j \in DOMAIN entries :
                 entries[j].case_id = case_id /\ entries[j].image_id # None}}

\* a _log_case_entry that keeps the summaries already stored for the case
log_case_entry_KeepOld(entries, entry) ==
    LET updated == [i \in DOMAIN entries |->
                      IF entries[i].case_id = entry.case_id /\ entries[i].image_id # None
                      THEN apply_case_summary_to_image(entries[i], entry)
                      ELSE entries[i]]
    IN Append(updated,
              [entry EXCEPT !.image_ids = collect_image_ids(updated, entry.case_id)])

\* _log_case_entry: the entries written back, computed from the entries read
log_case_entry(entries, entry) ==
    LET kept == SelectSeq(entries,
                   LAMBDA e : ~(e.case_id = entry.case_id /\ IsSummary(e)))
        updated == [i \in DOMAIN kept |->
                      IF kept[i].case_id = entry.case_id /\ kept[i].image_id # None
                      THEN apply_case_summary_to_image(kept[i], entry)
                      ELSE kept[i]]
    IN Append(updated,
              [entry EXCEPT !.image_ids = collect_image_ids(updated, entry.case_id)])

\* the last index whose entry is of the case and of one of the types, 0 if none
LastIndex(entries, case_id, types) ==
    LET S == {i \in DOMAIN entries :
                entries[i].case_id = case_id /\ entries[i].entry_type \in types}
    IN IF S = {} THEN None ELSE CHOOSE i \in S : \A j \in S : j <= i

\* an update that takes the last summary of the case whatever its type
update_case_in_entries_AnyType(entries, case_id, status) ==
    LET idx == LastIndex(entries, case_id, SummaryTypes)
    IN IF idx = None
       THEN [found |-> FALSE, entries |-> entries]
       ELSE [found |-> TRUE,
             entries |-> [entries EXCEPT ![idx] =
                            [@ EXCEPT !.status = status, !.updated_at = Now]]]

\* _update_case_in_entries: the entries after the update, or not found
update_case_in_entries(entries, case_id, status) ==
    LET idx == LastIndex(entries, case_id, {"case", "uncertain"})
    IN IF idx = None
       THEN [found |-> FALSE, entries |-> entries]
       ELSE [found |-> TRUE,
             entries |-> [entries EXCEPT ![idx] =
                            [@ EXCEPT !.status = status, !.updated_at = Now]]]

\* submit_case_label: the entry labelled is the last reject entry of the case,
\* else its last case/uncertain entry
LabelIndex(entries, case_id) ==
    IF LastIndex(entries, case_id, {"reject"}) # None
    THEN LastIndex(entries, case_id, {"reject"})
    ELSE LastIndex(entries, case_id, {"case", "uncertain"})

\* save_annotations._find_rejected_case_index
find_rejected_case_index(entries, case_id) == LastIndex(entries, case_id, {"reject"})

role_allows_global_access(user_role) == user_role \in {"admin"}

IdleHandler ==
    [pc |-> "idle", op |-> "none", user |-> NoValue, case_id |-> NoValue,
     arg |-> NoValue, entries |-> <<>>]

\* a handler that has read `entries` from the ledger of `user` and will rewrite it
Reading(op, user, case_id, arg, entries) ==
    [pc |-> "write", op |-> op, user |-> user, case_id |-> case_id,
     arg |-> arg, entries |-> entries]

\* what a handler that rewrote the ledger of `user` answered, and the types of
\* the summaries its rewrite dropped
Response(op, user, case_id, entry_type, replaced) ==
    [op |-> op, user |-> user, case_id |-> case_id, entry_type |-> entry_type,
     replaced |-> replaced]

\* a handler that answers with an error code and rewrites nothing
Refused(code) == IdleHandler

Free(h) == handlers[h].pc = "idle"

\* POST /check-image with a case_id: save the image, append its entry
CheckImage(u, case_id, blurry) ==
    /\ uploads < MaxImages
    /\ uploads' = uploads + 1
    /\ ledger' = [ledger EXCEPT ![u] =
          Append(@, ImageEntry(case_id, uploads + 1,
                               IF blurry THEN "fail" ELSE "success"))]
    /\ UNCHANGED <<handlers, calls, regVars, last, poolVars, extVars>>

\* POST /cases, /cases/uncertain, /cases/reject up to the ledger read
LogCaseRead(h, u, case_id, entry_type, payload_status) ==
    /\ Free(h)
    /\ handlers' = [handlers EXCEPT ![h] =
          Reading("log_case", u, case_id,
                  SummaryEntry(case_id, entry_type,
                               IF entry_type = "reject" THEN NoValue ELSE payload_status,
                               IF entry_type = "reject" THEN "rejected" ELSE "pending"),
                  ledger[u])]
    /\ calls < MaxCalls
    /\ calls' = (IF handlers'[h].pc = "write" THEN calls + 1 ELSE calls)
    /\ UNCHANGED <<ledger, uploads, regVars, last, poolVars, extVars>>

\* _log_case_entry from the loop over the entries read to the rewrite
LogCaseWrite(h) ==
    /\ handlers[h].pc = "write" /\ handlers[h].op = "log_case"
    /\ ledger' = [ledger EXCEPT ![handlers[h].user] =
          log_case_entry(handlers[h].entries, handlers[h].arg)]
    /\ handlers' = [handlers EXCEPT ![h] = IdleHandler]
    /\ last' = Response("log_case", handlers[h].user, handlers[h].case_id,
                        handlers[h].arg.entry_type,
                        {e.entry_type : e \in
                            {x \in Range(handlers[h].entries) :
                               x.case_id = handlers[h].case_id /\ IsSummary(x)}})
    /\ UNCHANGED <<uploads, calls, regVars, poolVars, extVars>>

\* the users whose ledger update_case would rewrite: the caller's own, the
\* target's, or for an admin without target the first ledger with a match in
\* the order of Path.iterdir(), which is arbitrary
UpdateTargets(u, role, target, case_id) ==
    IF ~role_allows_global_access(role) THEN {u}
    ELSE IF target # NoValue THEN {target}
    ELSE {w \in LedgerUsers : update_case_in_entries(ledger[w], case_id, "").found}

\* PUT /cases/{case_id} up to the read of the ledger it rewrites
UpdateCaseRead(h, u, role, target, case_id, status) ==
    /\ Free(h)
    /\ \/ /\ \E w \in UpdateTargets(u, role, target, case_id) :
               /\ update_case_in_entries(ledger[w], case_id, status).found
               /\ handlers' = [handlers EXCEPT ![h] =
                     Reading("update_case", w, case_id, status, ledger[w])]
       \/ /\ \A w \in UpdateTargets(u, role, target, case_id) :
               ~update_case_in_entries(ledger[w], case_id, status).found
          /\ handlers' = [handlers EXCEPT ![h] =
                Refused("not_found")]
    /\ calls < MaxCalls
    /\ calls' = (IF handlers'[h].pc = "write" THEN calls + 1 ELSE calls)
    /\ UNCHANGED <<ledger, uploads, regVars, last, poolVars, extVars>>

\* _update_case_in_entries on the entries read, and the rewrite
UpdateCaseWrite(h) ==
    /\ handlers[h].pc = "write" /\ handlers[h].op = "update_case"
    /\ ledger' = [ledger EXCEPT ![handlers[h].user] =
          update_case_in_entries(handlers[h].entries, handlers[h].case_id,
                                 handlers[h].arg).entries]
    /\ handlers' = [handlers EXCEPT ![h] = IdleHandler]
    /\ last' = Response("update_case", handlers[h].user, handlers[h].case_id, NoValue, {})
    /\ UNCHANGED <<uploads, calls, regVars, poolVars, extVars>>

\* a submit_case_label without the test of the role
SubmitLabelCode_AnyRole(u, role, case_id) ==
    IF ledger[u] = <<>> \/ LabelIndex(ledger[u], case_id) = None THEN 404
    ELSE 200

\* the status code submit_case_label answers with
SubmitLabelCode(u, role, case_id) ==
    IF role = "gp" THEN 403
    ELSE IF ledger[u] = <<>> \/ LabelIndex(ledger[u], case_id) = None THEN 404
    ELSE 200

\* POST /cases/{case_id}/label up to the ledger read
SubmitLabelRead(h, u, role, case_id, correct_label) ==
    /\ Free(h)
    /\ handlers' = [handlers EXCEPT ![h] =
          IF SubmitLabelCode(u, role, case_id) = 403
          THEN Refused("forbidden")
          ELSE IF SubmitLabelCode(u, role, case_id) = 404
          THEN Refused("not_found")
          ELSE Reading("submit_case_label", u, case_id, correct_label, ledger[u])]
    /\ calls < MaxCalls
    /\ calls' = (IF handlers'[h].pc = "write" THEN calls + 1 ELSE calls)
    /\ UNCHANGED <<ledger, uploads, regVars, last, poolVars, extVars>>

\* submit_case_label: label the entry found and rewrite
SubmitLabelWrite(h) ==
    /\ handlers[h].pc = "write" /\ handlers[h].op = "submit_case_label"
    /\ ledger' = [ledger EXCEPT ![handlers[h].user] =
          [handlers[h].entries EXCEPT
             ![LabelIndex(handlers[h].entries, handlers[h].case_id)].correct_label =
                 handlers[h].arg]]
    /\ handlers' = [handlers EXCEPT ![h] = IdleHandler]
    /\ last' = Response("submit_case_label", handlers[h].user, handlers[h].case_id, NoValue, {})
    /\ UNCHANGED <<uploads, calls, regVars, poolVars, extVars>>

\* the users holding a reject entry of the case
RejectHolders(case_id) ==
    {w \in LedgerUsers : find_rejected_case_index(ledger[w], case_id) # None}

\* the status code save_annotations answers with
SaveAnnotationsCode(u, role, case_user_id, case_id) ==
    LET target == IF case_user_id # NoValue THEN case_user_id ELSE u
        search == /\ find_rejected_case_index(ledger[target], case_id) = None
                  /\ case_user_id = NoValue
                  /\ role \in {"doctor", "admin"}
    IN IF search /\ Cardinality(RejectHolders(case_id)) > 1 THEN 409
       ELSE IF search /\ RejectHolders(case_id) # {} THEN 200
       ELSE IF find_rejected_case_index(ledger[target], case_id) = None THEN 404
       ELSE IF role = "gp" THEN 403
       ELSE 200

\* POST /cases/{case_id}/annotations up to the read of the ledger it rewrites
SaveAnnotationsRead(h, u, role, case_user_id, case_id, correct_label) ==
    LET target == IF case_user_id # NoValue THEN case_user_id ELSE u
        search == /\ find_rejected_case_index(ledger[target], case_id) = None
                  /\ case_user_id = NoValue
                  /\ role \in {"doctor", "admin"}
        refuse(code) == Refused(code)
    IN
    /\ Free(h)
    /\ handlers' = [handlers EXCEPT ![h] =
          IF search /\ Cardinality(RejectHolders(case_id)) > 1
          THEN refuse("conflict")
          ELSE IF search /\ RejectHolders(case_id) # {}
          THEN LET w == CHOOSE x \in RejectHolders(case_id) : TRUE
               IN Reading("save_annotations", w, case_id, correct_label, ledger[w])
          ELSE IF find_rejected_case_index(ledger[target], case_id) = None
          THEN refuse("not_found")
          ELSE IF role = "gp"
          THEN refuse("forbidden")
          ELSE Reading("save_annotations", target, case_id, correct_label,
                       ledger[target])]
    /\ calls < MaxCalls
    /\ calls' = (IF handlers'[h].pc = "write" THEN calls + 1 ELSE calls)
    /\ UNCHANGED <<ledger, uploads, regVars, last, poolVars, extVars>>

\* save_annotations: annotate the reject entry found and rewrite
SaveAnnotationsWrite(h) ==
    /\ handlers[h].pc = "write" /\ handlers[h].op = "save_annotations"
    /\ ledger' = [ledger EXCEPT ![handlers[h].user] =
          [handlers[h].entries EXCEPT
             ![find_rejected_case_index(handlers[h].entries, handlers[h].case_id)] =
                 [@ EXCEPT !.correct_label = handlers[h].arg, !.annotated = TRUE]]]
    /\ handlers' = [handlers EXCEPT ![h] = IdleHandler]
    /\ last' = Response("save_annotations", handlers[h].user, handlers[h].case_id, NoValue, {})
    /\ UNCHANGED <<uploads, calls, regVars, poolVars, extVars>>

InitLedger ==
    /\ ledger = [u \in LedgerUsers |-> <<>>]
    /\ handlers = [h \in Handlers |-> IdleHandler]
    /\ uploads = 0
    /\ calls = 0
    /\ IdleSelect
    /\ IdleVersion
    /\ IdleAlloc
    /\ IdleJobs
    /\ IdleConfig
    /\ IdleQuota
    /\ registry = EmptyRegistry
    /\ files = {}
    /\ production_file = None
    /\ events = <<>>
    /\ clock = 0
    /\ retrain = IdleRetrain
    /\ last = NoCall
    /\ pool = <<>>
    /\ callers = <<>>

NextLedger ==
    \/ \E u \in LedgerUsers, c \in Cases : CheckImage(u, c, FALSE)
    \/ \E h \in Handlers, u \in LedgerUsers, c \in Cases, t \in SummaryTypes,
          st \in {""} : LogCaseRead(h, u, c, t, st)
    \/ \E h \in Handlers : LogCaseWrite(h)
    \/ \E h \in Handlers, u \in LedgerUsers, r \in Roles,
          target \in LedgerUsers \cup {NoValue}, c \in Cases :
          UpdateCaseRead(h, u, r, target, c, "confirmed")
    \/ \E h \in Handlers : UpdateCaseWrite(h)
    \/ \E h \in Handlers, u \in LedgerUsers, r \in Roles, c \in Cases, l \in LedgerLabels :
          SubmitLabelRead(h, u, r, c, l)
    \/ \E h \in Handlers : SubmitLabelWrite(h)
    \/ \E h \in Handlers, u \in LedgerUsers, r \in Roles,
          cu \in LedgerUsers \cup {NoValue}, c \in Cases, l \in LedgerLabels :
          SaveAnnotationsRead(h, u, r, cu, c, l)
    \/ \E h \in Handlers : SaveAnnotationsWrite(h)

SpecLedger == InitLedger /\ [][NextLedger]_vars

----------------------------------------------------------------------------
(* Properties of the ledger specification *)

\* the positions of the summary entries of a case
Summaries(entries, case_id) ==
    {i \in DOMAIN entries : entries[i].case_id = case_id /\ IsSummary(entries[i])}

OneSummaryPerCase ==
    \A u \in LedgerUsers, c \in Cases : Cardinality(Summaries(ledger[u], c)) <= 1

\* the rewrite that ends a POST /cases/reject
RejectWrite(h) ==
    /\ handlers[h].pc = "write"
    /\ handlers[h].op = "log_case"
    /\ handlers[h].arg.entry_type = "reject"
    /\ LogCaseWrite(h)

\* C2: a user's ledger never holds more than one summary entry (case,
\* uncertain or reject) for a case_id, and a POST /cases/reject leaves exactly
\* one summary entry for its case, of type reject with status rejected.
C2_OneSummary ==
    /\ []OneSummaryPerCase
    /\ [][\A h \in Handlers : RejectWrite(h) =>
             LET S == Summaries(ledger'[handlers[h].user], handlers[h].case_id) IN
             /\ Cardinality(S) = 1
             /\ \A i \in S :
                   /\ ledger'[handlers[h].user][i].entry_type = "reject"
                   /\ ledger'[handlers[h].user][i].status = "rejected"]_vars

\* a POST /cases/reject has replaced the case summary a POST /cases had stored
C2_Witness ==
    /\ last.op = "log_case"
    /\ last.entry_type = "reject"
    /\ last.replaced = {"case"}
    /\ LET S == Summaries(ledger[last.user], last.case_id) IN
       /\ Cardinality(S) = 1
       /\ \A i \in S : /\ ledger[last.user][i].entry_type = "reject"
                       /\ ledger[last.user][i].status = "rejected"

\* C7: an image entry appended to a user's ledger is never lost: no step, in
\* particular no rewrite by a summary upsert, update_case, label or annotation
\* call, removes it.
C7_ImageNeverLost ==
    [][\A u \in LedgerUsers : \A e \in Range(ledger[u]) :
          e.image_id # None =>
             \E x \in Range(ledger'[u]) : x.image_id = e.image_id]_vars

\* a correction call of handler h succeeded: its rewrite of the ledger
CorrectionWrite(h) ==
    /\ handlers[h].pc = "write"
    /\ handlers[h].op \in {"submit_case_label", "save_annotations"}
    /\ SubmitLabelWrite(h) \/ SaveAnnotationsWrite(h)

\* C12: when a correction succeeds via POST /cases/{id}/label or
\* /cases/{id}/annotations, the ledger entry of the case carries the label and
\* the label pool holds a record of that case_id with that label, counted by
\* the unused-label count the retrain threshold consults.
C12_CorrectionReachesPool ==
    [][\A h \in Handlers : CorrectionWrite(h) =>
          /\ \E e \in Range(ledger'[handlers[h].user]) :
                /\ e.case_id = handlers[h].case_id
                /\ e.correct_label = handlers[h].arg
          /\ \E i \in DOMAIN get_unused_labels(pool') :
                /\ get_unused_labels(pool')[i].case_id = handlers[h].case_id
                /\ get_unused_labels(pool')[i].correct_label = handlers[h].arg
          /\ get_unused_label_count(pool') >= 1]_vars

\* the image entries of a case
Images(entries, case_id) ==
    {i \in DOMAIN entries : entries[i].case_id = case_id /\ entries[i].image_id # None}

\* C21: in every reachable ledger state (any order of image uploads and
\* summary upserts for a case), whenever a summary exists for case c in a
\* user's ledger, every image entry of c in that ledger carries the
\* case_status, case_entry_type and case_updated_at fields.
C21_ImagesDenormalized ==
    \A u \in LedgerUsers, c \in Cases :
        Summaries(ledger[u], c) # {} =>
           \A i \in Images(ledger[u], c) :
              /\ ledger[u][i].case_status # NoValue
              /\ ledger[u][i].case_entry_type # NoValue
              /\ ledger[u][i].case_updated_at # NoValue

----------------------------------------------------------------------------
(* back.py: the case endpoints, one request at a time, each handler run    *)
(* from its first read to its answer                                        *)

Reverse(s) == [i \in DOMAIN s |-> s[Len(s) + 1 - i]]

\* s[-n:] of Python for n >= 0; -0 is 0, and s[0:] is the whole list
LastN(s, n) ==
    IF n = 0 \/ Len(s) <= n THEN s ELSE SubSeq(s, Len(s) - n + 1, Len(s))

\* the order in which Path.iterdir() lists the user directories
StorageOrders == {<<"u1", "u2">>, <<"u2", "u1">>}

\* the limit parameter of GET /cases; 100 is its default
Limits == {0, 1, 100}

\* what a request answered: the status code and, for GET /cases, the cases
Reply(op, role, case_id, code, cases) ==
    [op |-> op, role |-> role, case_id |-> case_id, code |-> code,
     cases |-> cases]

should_include_entry(entry, allowed_entry_types, status_filter) ==
    /\ entry.entry_type \in allowed_entry_types
    /\ status_filter # NoValue => entry.status = status_filter

RECURSIVE read_all_metadata_entries(_, _)
read_all_metadata_entries(ledgers, order) ==
    IF order = <<>> THEN <<>>
    ELSE ledgers[Head(order)] \o read_all_metadata_entries(ledgers, Tail(order))

\* the entries get_cases reads when a doctor is served as an admin is
CasesRead_Doctor(ledgers, order, u, role) ==
    IF role \in {"admin", "doctor"}
    THEN read_all_metadata_entries(ledgers, order)
    ELSE ledgers[u]

\* the entries get_cases reads
CasesRead(ledgers, order, u, role) ==
    IF role_allows_global_access(role)
    THEN read_all_metadata_entries(ledgers, order)
    ELSE ledgers[u]

\* get_cases: the cases returned, most recent first
get_cases(ledgers, order, u, role, status_filter, include_uncertain, include_rejected, limit) ==
    LET allowed_entry_types ==
            {"case"} \cup (IF include_uncertain THEN {"uncertain"} ELSE {})
                     \cup (IF include_rejected THEN {"reject"} ELSE {})
        cases == SelectSeq(CasesRead(ledgers, order, u, role),
                    LAMBDA e : should_include_entry(e, allowed_entry_types,
                                                    status_filter))
    IN Reverse(LastN(cases, limit))

\* GET /cases
GetCases(u, role, order, status_filter, include_uncertain, include_rejected, limit) ==
    /\ last' = Reply("get_cases", role, NoValue, 200,
                     get_cases(ledger, order, u, role, status_filter,
                               include_uncertain, include_rejected, limit))
    /\ UNCHANGED <<ledger, handlers, uploads, calls, regVars, poolVars, extVars>>

\* POST /cases, /cases/uncertain, /cases/reject
LogCase(u, case_id, entry_type) ==
    /\ calls < MaxCaseCalls
    /\ calls' = calls + 1
    /\ ledger' = [ledger EXCEPT ![u] =
          log_case_entry(@, SummaryEntry(case_id, entry_type, NoValue,
                            IF entry_type = "reject" THEN "rejected" ELSE "pending"))]
    /\ last' = Reply("log_case", NoValue, case_id, 200, <<>>)
    /\ UNCHANGED <<handlers, uploads, regVars, poolVars, extVars>>

\* PUT /cases/{case_id} with a status in the payload: the ledger rewritten is
\* the first one searched that holds a case/uncertain summary of the case
UpdateCase(u, role, target, case_id, status) ==
    LET found == {w \in UpdateTargets(u, role, target, case_id) :
                    update_case_in_entries(ledger[w], case_id, status).found}
    IN
    /\ calls < MaxCaseCalls
    /\ IF found = {}
       THEN /\ last' = Reply("update_case", role, case_id, 404, <<>>)
            /\ UNCHANGED <<ledger, calls>>
       ELSE /\ \E w \in found :
                  ledger' = [ledger EXCEPT ![w] =
                     update_case_in_entries(@, case_id, status).entries]
            /\ calls' = calls + 1
            /\ last' = Reply("update_case", role, case_id, 200, <<>>)
    /\ UNCHANGED <<handlers, uploads, regVars, poolVars, extVars>>

\* POST /cases/{case_id}/label
SubmitCaseLabel(u, role, case_id, correct_label) ==
    /\ calls < MaxCaseCalls
    /\ IF SubmitLabelCode(u, role, case_id) # 200
       THEN UNCHANGED <<ledger, calls>>
       ELSE /\ ledger' = [ledger EXCEPT
                  ![u][LabelIndex(ledger[u], case_id)].correct_label = correct_label]
            /\ calls' = calls + 1
    /\ last' = Reply("submit_case_label", role, case_id,
                     SubmitLabelCode(u, role, case_id), <<>>)
    /\ UNCHANGED <<handlers, uploads, regVars, poolVars, extVars>>

\* the user whose reject entry save_annotations rewrites
AnnotationTarget(u, role, case_user_id, case_id) ==
    LET target == IF case_user_id # NoValue THEN case_user_id ELSE u IN
    IF /\ find_rejected_case_index(ledger[target], case_id) = None
       /\ case_user_id = NoValue
       /\ role \in {"doctor", "admin"}
       /\ RejectHolders(case_id) # {}
    THEN CHOOSE x \in RejectHolders(case_id) : TRUE
    ELSE target

\* POST /cases/{case_id}/annotations
SaveAnnotations(u, role, case_user_id, case_id, correct_label) ==
    LET w == AnnotationTarget(u, role, case_user_id, case_id) IN
    /\ calls < MaxCaseCalls
    /\ IF SaveAnnotationsCode(u, role, case_user_id, case_id) # 200
       THEN UNCHANGED <<ledger, calls>>
       ELSE /\ ledger' = [ledger EXCEPT
                  ![w][find_rejected_case_index(ledger[w], case_id)] =
                      [@ EXCEPT !.correct_label = correct_label,
                                !.annotated = TRUE]]
            /\ calls' = calls + 1
    /\ last' = Reply("save_annotations", role, case_id,
                     SaveAnnotationsCode(u, role, case_user_id, case_id), <<>>)
    /\ UNCHANGED <<handlers, uploads, regVars, poolVars, extVars>>

InitCases ==
    /\ ledger = [u \in LedgerUsers |-> <<>>]
    /\ handlers = [h \in Handlers |-> IdleHandler]
    /\ uploads = 0
    /\ calls = 0
    /\ IdleSelect
    /\ IdleVersion
    /\ IdleAlloc
    /\ IdleJobs
    /\ IdleConfig
    /\ IdleQuota
    /\ registry = EmptyRegistry
    /\ files = {}
    /\ production_file = None
    /\ events = <<>>
    /\ clock = 0
    /\ retrain = IdleRetrain
    /\ last = NoCall
    /\ pool \in SerialPools
    /\ callers = <<>>

NextCases ==
    \/ \E u \in LedgerUsers, c \in Cases : CheckImage(u, c, FALSE)
    \/ \E u \in LedgerUsers, c \in Cases, t \in SummaryTypes : LogCase(u, c, t)
    \/ \E u \in LedgerUsers, r \in Roles,
          target \in LedgerUsers \cup {NoValue}, c \in Cases :
          UpdateCase(u, r, target, c, "confirmed")
    \/ \E u \in LedgerUsers, r \in Roles, c \in Cases, l \in LedgerLabels :
          SubmitCaseLabel(u, r, c, l)
    \/ \E u \in LedgerUsers, r \in Roles, cu \in LedgerUsers \cup {NoValue},
          c \in Cases, l \in LedgerLabels : SaveAnnotations(u, r, cu, c, l)

SpecCases == InitCases /\ [][NextCases]_vars

----------------------------------------------------------------------------
(* Properties of the case endpoints *)

\* the ledgers update_case looks into
Searched(u, role, target) ==
    IF ~role_allows_global_access(role) THEN {u}
    ELSE IF target # NoValue THEN {target}
    ELSE LedgerUsers

\* the ledger of w after update_case stamped the most recent case/uncertain
\* summary of the case and nothing else
OnlySummaryUpdated(w, case_id, status) ==
    LET idx == LastIndex(ledger[w], case_id, {"case", "uncertain"}) IN
    /\ idx # None
    /\ DOMAIN ledger'[w] = DOMAIN ledger[w]
    /\ ledger'[w][idx] = [ledger[w][idx] EXCEPT !.status = status,
                                                !.updated_at = Now]
    /\ \A i \in DOMAIN ledger[w] : i # idx => ledger'[w][i] = ledger[w][i]
    /\ \A x \in LedgerUsers : x # w => ledger'[x] = ledger[x]

\* C22: update_case(user, c, patch) modifies only the most recent summary of
\* c whose entry_type is case or uncertain, stamping updated_at; it never
\* modifies a reject entry or an image entry, and when c has no
\* case/uncertain summary it reports not_found and leaves the ledger
\* unchanged.
C22_UpdateCase ==
    [][last'.op = "update_case" =>
       \A u \in LedgerUsers, r \in {last'.role},
          target \in LedgerUsers \cup {NoValue}, c \in Cases :
          UpdateCase(u, r, target, c, "confirmed")
          => /\ \A x \in LedgerUsers : \A i \in DOMAIN ledger[x] :
                   ledger[x][i].entry_type = "reject" \/ ledger[x][i].image_id # None
                      => /\ i \in DOMAIN ledger'[x]
                         /\ ledger'[x][i] = ledger[x][i]
             /\ IF \E w \in Searched(u, r, target) :
                      LastIndex(ledger[w], c, {"case", "uncertain"}) # None
                THEN /\ last'.code = 200
                     /\ \E w \in Searched(u, r, target) :
                           OnlySummaryUpdated(w, c, "confirmed")
                ELSE /\ last'.code = 404
                     /\ ledger' = ledger]_vars

\* an admin's update_case stamped the case summary of one user while another
\* user holds a reject entry of the same case, and an image entry is stored
C22_Witness ==
    /\ last.op = "update_case"
    /\ last.code = 200
    /\ \E w \in LedgerUsers : \E e \in Range(ledger[w]) :
          e.entry_type = "case" /\ e.status = "confirmed" /\ e.updated_at = Now
    /\ \E w \in LedgerUsers : \E e \in Range(ledger[w]) :
          e.entry_type = "reject" /\ e.updated_at = NoValue
    /\ \E w \in LedgerUsers : \E e \in Range(ledger[w]) : e.image_id # None

\* a label or annotation submission of a gp: the answer given the code the
\* annotation endpoint owes when it finds no rejected case
GpRefused(NoRejectCode) ==
    /\ \A u \in LedgerUsers, c \in Cases, l \in LedgerLabels :
          SubmitCaseLabel(u, "gp", c, l)
          => /\ last'.code = 403
             /\ ledger' = ledger
             /\ pool' = pool
    /\ \A u \in LedgerUsers, cu \in LedgerUsers \cup {NoValue}, c \in Cases,
          l \in LedgerLabels :
          SaveAnnotations(u, "gp", cu, c, l)
          => /\ last'.code =
                   (IF find_rejected_case_index(
                          ledger[IF cu # NoValue THEN cu ELSE u], c) # None
                    THEN 403 ELSE NoRejectCode)
             /\ ledger' = ledger
             /\ pool' = pool

GpSubmission ==
    /\ last'.op \in {"submit_case_label", "save_annotations"}
    /\ last'.role = "gp"

\* C27 as stated: a label or annotation submission by a caller with role gp
\* is rejected as forbidden (403) whatever the ledger contents, and leaves
\* every ledger and the label pool unchanged.
C27_GpForbiddenAlways == [][GpSubmission => GpRefused(403)]_vars

\* C27: a label submission by a caller with role gp is rejected as forbidden
\* (403) whatever the ledger contents; an annotation submission by a gp is
\* rejected as forbidden (403) when the ledger it addresses holds a reject
\* entry of the case and as not found (404) when it holds none; either way
\* every ledger and the label pool are left unchanged.
C27_GpRefused == [][GpSubmission => GpRefused(404)]_vars

\* a gp was refused with 403 on a case that is rejected in some ledger, the
\* label pool holding a record
C27_Witness ==
    /\ last.op \in {"submit_case_label", "save_annotations"}
    /\ last.role = "gp"
    /\ last.code = 403
    /\ pool # <<>>
    /\ \E w \in LedgerUsers :
          find_rejected_case_index(ledger[w], last.case_id) # None

\* the summary entries of a case in a ledger
SummariesOf(entries, case_id) ==
    {e \in Range(entries) : e.case_id = case_id /\ IsSummary(e)}

\* C35: once a case's summary carries a correct_label written by the label
\* or annotation endpoint, every later summary upsert (POST /cases,
\* /cases/uncertain, /cases/reject) for the same case leaves the surviving
\* summary with that correct_label (and its annotations) intact.
C35_LabelSurvivesUpsert ==
    [][last'.op = "log_case" =>
       \A u \in LedgerUsers, c \in {last'.case_id}, t \in SummaryTypes :
          LogCase(u, c, t)
          => \A old \in SummariesOf(ledger[u], c) :
                old.correct_label # NoValue
                => \A new \in SummariesOf(ledger'[u], c) :
                      /\ new.correct_label = old.correct_label
                      /\ new.annotated = old.annotated]_vars

----------------------------------------------------------------------------
(* back.py: GET /cases on the ledgers the case endpoints have written *)

\* ledgers as the case endpoints leave them: empty, a logged case, a rejected
\* case with its image, a logged case followed by an uncertain one
SampleLedgers ==
    LET logged == log_case_entry(<<>>,
                     SummaryEntry("10000", "case", NoValue, "pending"))
    IN {<<>>,
        logged,
        log_case_entry(<<ImageEntry("10000", 1, "success")>>,
                       SummaryEntry("10000", "reject", NoValue, "rejected")),
        log_case_entry(logged,
                       SummaryEntry("10001", "uncertain", NoValue, "pending"))}

InitView ==
    /\ ledger \in [LedgerUsers -> SampleLedgers]
    /\ handlers = [h \in Handlers |-> IdleHandler]
    /\ uploads = 0
    /\ calls = 0
    /\ IdleSelect
    /\ IdleVersion
    /\ IdleAlloc
    /\ IdleJobs
    /\ IdleConfig
    /\ IdleQuota
    /\ registry = EmptyRegistry
    /\ files = {}
    /\ production_file = None
    /\ events = <<>>
    /\ clock = 0
    /\ retrain = IdleRetrain
    /\ last = NoCall
    /\ pool = <<>>
    /\ callers = <<>>

NextView ==
    \E u \in LedgerUsers, r \in Roles, o \in StorageOrders,
       st \in {NoValue, "pending"}, iu \in BOOLEAN, ir \in BOOLEAN,
       n \in Limits : GetCases(u, r, o, st, iu, ir, n)

SpecView == InitView /\ [][NextView]_vars

\* the entry types GET /cases lets through
AllowedTypes(include_uncertain, include_rejected) ==
    {"case"} \cup (IF include_uncertain THEN {"uncertain"} ELSE {})
             \cup (IF include_rejected THEN {"reject"} ELSE {})

Matching(u, role, order, status_filter, include_uncertain, include_rejected) ==
    SelectSeq(CasesRead(ledger, order, u, role),
              LAMBDA e :
                 /\ e.entry_type \in AllowedTypes(include_uncertain,
                                                  include_rejected)
                 /\ status_filter # NoValue => e.status = status_filter)

\* the last n elements of s, the newest first
NewestFirst(s, n) ==
    LET k == IF n < Len(s) THEN n ELSE Len(s)
    IN [i \in 1..k |-> s[Len(s) + 1 - i]]

\* C31: read_cases (GET /cases) with limit N, for every N >= 0, returns at
\* most N entries: the last N ledger entries that match the entry_type and
\* status filters, in reverse file order (newest first).
C31_LastN ==
    [][last'.op = "get_cases" =>
       \A u \in LedgerUsers, r \in {last'.role}, o \in StorageOrders,
          st \in {NoValue, "pending"}, iu \in BOOLEAN, ir \in BOOLEAN,
          n \in Limits :
          GetCases(u, r, o, st, iu, ir, n)
          => /\ Len(last'.cases) <= n
             /\ last'.cases = NewestFirst(Matching(u, r, o, st, iu, ir), n)]_vars

\* C26: a caller with role doctor or admin can view all cases: GET /cases
\* issued with either role returns the matching summary entries of every
\* user's ledger, not only the caller's (the limit being above their number).
C26_GlobalView ==
    [][last'.op = "get_cases" /\ last'.role \in {"doctor", "admin"} =>
       \A u \in LedgerUsers, r \in {last'.role}, o \in StorageOrders,
          st \in {NoValue, "pending"}, iu \in BOOLEAN, ir \in BOOLEAN :
          GetCases(u, r, o, st, iu, ir, 100)
          => \A w \in LedgerUsers : \A e \in Range(ledger[w]) :
                should_include_entry(e, AllowedTypes(iu, ir), st)
                => e \in Range(last'.cases)]_vars


----------------------------------------------------------------------------
(* labels_pool.py: the callers of the label pool (labels_pool.jsonl) *)

PoolCallers == {"k1", "k2"}

IdleCaller ==
    [pc |-> "idle", op |-> "none", case_id |-> NoValue, entry |-> NoValue,
     version_id |-> None, labels |-> <<>>]

\* a caller that has loaded `labels` and has its write still to do
Loaded(op, case_id, entry, version_id, labels) ==
    [pc |-> "store", op |-> op, case_id |-> case_id, entry |-> entry,
     version_id |-> version_id, labels |-> labels]

\* add_label up to the record built from the pool it loaded
AddLabelLoad(k, case_id, image_paths, correct_label, user_id) ==
    /\ callers[k].pc = "idle"
    /\ calls < MaxCalls
    /\ clock < MaxClock
    /\ clock' = clock + 1
    /\ calls' = calls + 1
    /\ callers' = [callers EXCEPT ![k] =
          Loaded("add_label", case_id,
                 label_entry(pool, case_id, image_paths, correct_label, user_id, clock + 1),
                 None, pool)]
    /\ UNCHANGED <<pool, registry, files, production_file, events, retrain, last,
                   ledger, handlers, uploads, extVars>>

\* add_label: rewrite the loaded pool when the case was in it, else append
AddLabelStore(k) ==
    /\ callers[k].pc = "store" /\ callers[k].op = "add_label"
    /\ pool' = IF FirstIndex(callers[k].labels, callers[k].case_id) # 0
               THEN [callers[k].labels EXCEPT
                        ![FirstIndex(callers[k].labels, callers[k].case_id)] =
                            callers[k].entry]
               ELSE Append(pool, callers[k].entry)
    /\ callers' = [callers EXCEPT ![k] = IdleCaller]
    /\ last' = Response("add_label", callers[k].entry.user_id, callers[k].case_id,
                        NoValue, {})
    /\ UNCHANGED <<regVars, ledgerVars, extVars>>

\* mark_labels_used(version_id, case_ids) up to the load
MarkUsedLoad(k, version_id) ==
    /\ callers[k].pc = "idle"
    /\ calls < MaxCalls
    /\ calls' = calls + 1
    /\ callers' = [callers EXCEPT ![k] =
          Loaded("mark_labels_used", NoValue, NoValue, version_id, pool)]
    /\ UNCHANGED <<pool, regVars, last, ledger, handlers, uploads, extVars>>

\* mark_labels_used: mark the loaded records and rewrite the pool
MarkUsedSave(k) ==
    /\ callers[k].pc = "store" /\ callers[k].op = "mark_labels_used"
    /\ pool' = mark_labels_used(callers[k].labels, callers[k].version_id,
                                TrainingCaseIds(callers[k].labels))
    /\ callers' = [callers EXCEPT ![k] = IdleCaller]
    /\ last' = Response("mark_labels_used", NoValue, NoValue, NoValue, {})
    /\ UNCHANGED <<regVars, ledgerVars, extVars>>

\* delete_label(case_id) up to the load; it returns False when nothing matches
DeleteLabelLoad(k, case_id) ==
    /\ callers[k].pc = "idle"
    /\ calls < MaxCalls
    /\ FirstIndex(pool, case_id) # 0
    /\ calls' = calls + 1
    /\ callers' = [callers EXCEPT ![k] =
          Loaded("delete_label", case_id, NoValue, None, pool)]
    /\ UNCHANGED <<pool, regVars, last, ledger, handlers, uploads, extVars>>

\* delete_label: rewrite the loaded pool without the records of the case
DeleteLabelSave(k) ==
    /\ callers[k].pc = "store" /\ callers[k].op = "delete_label"
    /\ pool' = delete_label(callers[k].labels, callers[k].case_id)
    /\ callers' = [callers EXCEPT ![k] = IdleCaller]
    /\ last' = Response("delete_label", NoValue, callers[k].case_id, NoValue, {})
    /\ UNCHANGED <<regVars, ledgerVars, extVars>>

InitPool ==
    /\ pool = <<>>
    /\ callers = [k \in PoolCallers |-> IdleCaller]
    /\ calls = 0
    /\ IdleSelect
    /\ IdleVersion
    /\ IdleAlloc
    /\ IdleJobs
    /\ IdleConfig
    /\ IdleQuota
    /\ clock = 0
    /\ last = NoCall
    /\ registry = EmptyRegistry
    /\ files = {}
    /\ production_file = None
    /\ events = <<>>
    /\ retrain = IdleRetrain
    /\ ledger = <<>>
    /\ handlers = <<>>
    /\ uploads = 0

NextPool ==
    \/ \E k \in PoolCallers, c \in PoolCases, ps \in PathLists, l \in Labels,
          u \in PoolUsers : AddLabelLoad(k, c, ps, l, u)
    \/ \E k \in PoolCallers : AddLabelStore(k)
    \/ \E k \in PoolCallers, v \in Versions : MarkUsedLoad(k, v)
    \/ \E k \in PoolCallers : MarkUsedSave(k)
    \/ \E k \in PoolCallers, c \in PoolCases : DeleteLabelLoad(k, c)
    \/ \E k \in PoolCallers : DeleteLabelSave(k)

SpecPool == InitPool /\ [][NextPool]_vars

----------------------------------------------------------------------------
(* Properties of the pool specification *)

RecordsOf(labels, case_id) == {i \in DOMAIN labels : labels[i].case_id = case_id}

OneRecordPerCase ==
    \A c \in PoolCases : Cardinality(RecordsOf(pool, c)) <= 1

\* no step other than a delete_label of the case removes the case's record
NoRecordLost ==
    [][\A c \in PoolCases :
          (/\ RecordsOf(pool, c) # {}
           /\ ~\E k \in PoolCallers : DeleteLabelSave(k) /\ callers[k].case_id = c)
          => RecordsOf(pool', c) # {}]_vars

\* C8: under overlapping add_label, mark_labels_used and delete_label calls
\* the pool holds at most one record per case_id, and a record that a
\* completed add_label stored stays in the pool until a delete_label of its
\* case removes it.
C8_PoolConsistent == []OneRecordPerCase /\ NoRecordLost

----------------------------------------------------------------------------
(* labels_pool.py: one caller at a time, every call run from load to save *)

\* the image paths, label and user of an add_label call
PoolRequests ==
    {<<(<<"p1">>), "mel", "user1">>,
     <<(<<"p1", "p2">>), "nv", "user2">>,
     <<(<<"p2">>), "mel", "user2">>}

\* add_label applied to the pool file: the record replaces the first record
\* of the case, or is appended when the case has none
add_label(labels, case_id, image_paths, correct_label, user_id, now) ==
    LET existing_idx == FirstIndex(labels, case_id)
        entry == label_entry(labels, case_id, image_paths, correct_label,
                             user_id, now)
    IN IF existing_idx # 0
       THEN [labels EXCEPT ![existing_idx] = entry]
       ELSE Append(labels, entry)

AddLabel(case_id, image_paths, correct_label, user_id) ==
    /\ calls < MaxPoolOps
    /\ clock < MaxClock
    /\ clock' = clock + 1
    /\ calls' = calls + 1
    /\ pool' = add_label(pool, case_id, image_paths, correct_label, user_id,
                         clock + 1)
    /\ last' = Response("add_label", user_id, case_id, NoValue, {})
    /\ UNCHANGED <<callers, registry, files, production_file, events, retrain,
                   ledger, handlers, uploads, extVars>>

\* mark_labels_used(version_id, [case_id])
MarkLabelsUsed(version_id, case_id) ==
    /\ calls < MaxPoolOps
    /\ calls' = calls + 1
    /\ pool' = mark_labels_used(pool, version_id, {case_id})
    /\ last' = Response("mark_labels_used", NoValue, case_id, NoValue, {})
    /\ UNCHANGED <<callers, regVars, ledger, handlers, uploads, extVars>>

\* delete_label(case_id); it rewrites nothing when no record matches
DeleteLabel(case_id) ==
    /\ calls < MaxPoolOps
    /\ FirstIndex(pool, case_id) # 0
    /\ calls' = calls + 1
    /\ pool' = delete_label(pool, case_id)
    /\ last' = Response("delete_label", NoValue, case_id, NoValue, {})
    /\ UNCHANGED <<callers, regVars, ledger, handlers, uploads, extVars>>

InitPoolSeq == InitPool

NextPoolSeq ==
    \/ \E c \in PoolCases, r \in PoolRequests : AddLabel(c, r[1], r[2], r[3])
    \/ \E v \in Versions, c \in PoolCases : MarkLabelsUsed(v, c)
    \/ \E c \in PoolCases : DeleteLabel(c)

SpecPoolSeq == InitPoolSeq /\ [][NextPoolSeq]_vars

----------------------------------------------------------------------------
(* Properties of the one-caller pool specification *)

NoDuplicates(s) == \A i, j \in DOMAIN s : s[i] = s[j] => i = j
IsPrefix(s, t) == Len(s) <= Len(t) /\ \A i \in DOMAIN s : s[i] = t[i]

\* the versions a history holds for a path, none when the path has no key
RoundsOf(history, p) == IF p \in DOMAIN history THEN history[p] ELSE <<>>

SameRounds(h1, h2) == \A p \in Paths : RoundsOf(h1, p) = RoundsOf(h2, p)

\* the record of the case after an add_label on a case that had a record
Resubmitted(c, correct_label, user_id, SameHistory(_, _)) ==
    LET old == pool[FirstIndex(pool, c)] IN
    /\ Cardinality(RecordsOf(pool', c)) = 1
    /\ \A i \in RecordsOf(pool', c) :
          /\ pool'[i].correct_label = correct_label
          /\ pool'[i].user_id = user_id
          /\ pool'[i].created_at = old.created_at
          /\ pool'[i].used_in_models = old.used_in_models
          /\ SameHistory(pool'[i].image_retrain_history, old.image_retrain_history)

ResubmitKeeps(SameHistory(_, _)) ==
    \A c \in PoolCases, r \in PoolRequests :
        (/\ last'.op = "add_label"
         /\ FirstIndex(pool, c) # 0
         /\ AddLabel(c, r[1], r[2], r[3]))
        => Resubmitted(c, r[2], r[3], SameHistory)

\* C19 as stated: after add_label(c, paths, L, u1) followed by
\* add_label(c, paths', L', u2) the pool holds exactly one record for c, with
\* correct_label = L' and user_id = u2, created_at equal to that of the
\* first write, and used_in_models and image_retrain_history as they were
\* before the second call.
C19_ResubmitAsStated ==
    [][LET Equal(h1, h2) == h1 = h2 IN ResubmitKeeps(Equal)]_vars

\* C19: after add_label(c, paths, L, u1) followed by
\* add_label(c, paths', L', u2) the pool holds exactly one record for c, with
\* correct_label = L' and user_id = u2, created_at equal to that of the
\* first write, used_in_models as it was before the second call, and
\* image_retrain_history holding for every image path the versions it held
\* before the second call (a path of the earlier record that had no key gets
\* an empty list).
C19_ResubmitKeepsRounds == [][ResubmitKeeps(SameRounds)]_vars

\* a re-submit by another user of a case that a model version has used
C19_Witness ==
    /\ last.op = "add_label"
    /\ \E i \in DOMAIN pool :
          /\ pool[i].case_id = last.case_id
          /\ pool[i].user_id = "user2"
          /\ pool[i].correct_label = "nv"
          /\ pool[i].created_at < pool[i].updated_at
          /\ pool[i].used_in_models # <<>>

\* the record of the case after mark_labels_used(v, [c])
Marked(v, old, new) ==
    /\ v \in Range(new.used_in_models)
    /\ NoDuplicates(new.used_in_models)
    /\ IsPrefix(old.used_in_models, new.used_in_models)
    /\ \A p \in Range(new.image_paths) :
          /\ p \in DOMAIN new.image_retrain_history
          /\ v \in Range(new.image_retrain_history[p])
    /\ \A p \in DOMAIN new.image_retrain_history :
          /\ NoDuplicates(new.image_retrain_history[p])
          /\ IsPrefix(RoundsOf(old.image_retrain_history, p),
                      new.image_retrain_history[p])
    /\ DOMAIN old.image_retrain_history \subseteq DOMAIN new.image_retrain_history

\* C20: for every version v and existing case c, after mark_used(v, {c}):
\* v is in used_in_models(c) and in image_retrain_history(c)[p] for each p in
\* image_paths(c); the lists contain no duplicates and earlier elements are
\* kept in order (append-only), and calling mark_used(v, {c}) a second time
\* leaves the record unchanged.
C20_MarkUsed ==
    [][\A v \in Versions, c \in PoolCases :
          (/\ last'.op = "mark_labels_used"
           /\ FirstIndex(pool, c) # 0
           /\ MarkLabelsUsed(v, c))
          => /\ DOMAIN pool' = DOMAIN pool
             /\ \A i \in RecordsOf(pool, c) : Marked(v, pool[i], pool'[i])
             /\ mark_labels_used(pool', v, {c}) = pool']_vars

\* a second version marked on a case whose image paths were re-submitted
C20_Witness ==
    /\ last.op = "mark_labels_used"
    /\ \E i \in DOMAIN pool :
          /\ pool[i].case_id = last.case_id
          /\ Len(pool[i].used_in_models) = 2
          /\ \E p \in Range(pool[i].image_paths) :
                Len(pool[i].image_retrain_history[p]) = 1

----------------------------------------------------------------------------
(* AL.py: margin-based uncertainty sampling; confidences are in percent *)

\* a case of the sampler: per image the confidences of its predictions, and
\* the confidences of the case-level predictions
SampleCase(id, images, predictions) ==
    [case_id |-> id, images |-> images, predictions |-> predictions]

SampleCases ==
    { SampleCase("A", << <<55, 45>> >>, <<>>),
      SampleCase("B", << <<51, 49>>, <<10, 90>> >>, <<>>),
      SampleCase("C", << <<70, 30>> >>, <<>>),
      SampleCase("D", <<>>, <<40, 60>>),
      SampleCase("E", << <<100>> >>, <<>>),
      SampleCase("F", << <<>>, <<30, 40, 30>> >>, <<90, 10>>),
      SampleCase("G", << <<100>> >>, <<60, 40>>),
      SampleCase("H", << <<>> >>, <<80, 20>>) }

\* sorted(predictions, key = confidence, reverse = True)[0]
MaxOf(confidences) ==
    CHOOSE c \in {confidences[i] : i \in DOMAIN confidences} :
        \A i \in DOMAIN confidences : confidences[i] <= c

\* sorted(predictions, key = confidence, reverse = True)[1:], as a list
WithoutMax(confidences) ==
    LET i == CHOOSE j \in DOMAIN confidences : confidences[j] = MaxOf(confidences)
    IN SubSeq(confidences, 1, i - 1) \o SubSeq(confidences, i + 1, Len(confidences))

\* calculate_margin: top confidence minus second confidence
calculate_margin(predictions) ==
    IF Len(predictions) < 2 THEN 100
    ELSE MaxOf(predictions) - MaxOf(WithoutMax(predictions))

\* a calculate_case_margin that returns the largest image margin
calculate_case_margin_Max(case) ==
    IF case.images = <<>>
    THEN IF case.predictions # <<>> THEN calculate_margin(case.predictions)
         ELSE 100
    ELSE LET margins == {calculate_margin(case.images[i]) :
                            i \in {j \in DOMAIN case.images : case.images[j] # <<>>}}
         IN IF margins = {} THEN 100
            ELSE CHOOSE m \in margins : \A n \in margins : n <= m

\* calculate_case_margin: the minimum margin over the images with predictions
calculate_case_margin(case) ==
    IF case.images = <<>>
    THEN IF case.predictions # <<>> THEN calculate_margin(case.predictions)
         ELSE 100
    ELSE LET margins == {calculate_margin(case.images[i]) :
                            i \in {j \in DOMAIN case.images : case.images[j] # <<>>}}
         IN IF margins = {} THEN 100
            ELSE CHOOSE m \in margins : \A n \in margins : m <= n

\* the heap item (margin, idx, case_with_margin)
HeapItem(case, idx) ==
    [margin |-> calculate_case_margin(case), idx |-> idx,
     case |-> [case_id |-> case.case_id, images |-> case.images,
               predictions |-> case.predictions,
               margin |-> calculate_case_margin(case),
               uncertainty_score |-> 100 - calculate_case_margin(case)]]

\* tuple comparison of two heap items; idx is unique, the case is never compared
ItemLess(a, b) ==
    \/ a.margin < b.margin
    \/ a.margin = b.margin /\ a.idx < b.idx

\* heapq._siftdown; positions are 0-based as in heapq, heap[p + 1] is item p
RECURSIVE SiftDownLoop(_, _, _, _)
SiftDownLoop(heap, newitem, startpos, pos) ==
    LET parentpos == (pos - 1) \div 2 IN
    IF pos > startpos /\ ItemLess(newitem, heap[parentpos + 1])
    THEN SiftDownLoop([heap EXCEPT ![pos + 1] = heap[parentpos + 1]],
                      newitem, startpos, parentpos)
    ELSE [heap EXCEPT ![pos + 1] = newitem]

siftdown(heap, startpos, pos) == SiftDownLoop(heap, heap[pos + 1], startpos, pos)

\* heapq._siftup
RECURSIVE SiftUpLoop(_, _, _, _)
SiftUpLoop(heap, newitem, startpos, pos) ==
    LET childpos == 2 * pos + 1
        rightpos == childpos + 1
        smaller == IF rightpos < Len(heap)
                      /\ ~ItemLess(heap[childpos + 1], heap[rightpos + 1])
                   THEN rightpos ELSE childpos
    IN IF childpos < Len(heap)
       THEN SiftUpLoop([heap EXCEPT ![pos + 1] = heap[smaller + 1]],
                       newitem, startpos, smaller)
       ELSE siftdown([heap EXCEPT ![pos + 1] = newitem], startpos, pos)

siftup(heap, pos) == SiftUpLoop(heap, heap[pos + 1], pos, pos)

heappush(heap, item) == siftdown(Append(heap, item), 0, Len(heap))

heapreplace(heap, item) == siftup([heap EXCEPT ![1] = item], 0)

\* the loop of select_uncertain_samples over enumerate(cases), from case i on
RECURSIVE SelectLoop(_, _, _, _)
SelectLoop(cases, k, i, uncertain_samples) ==
    IF i > Len(cases) THEN uncertain_samples
    ELSE LET item == HeapItem(cases[i], i - 1) IN
         SelectLoop(cases, k, i + 1,
            IF Len(uncertain_samples) < k
            THEN heappush(uncertain_samples, item)
            ELSE IF item.margin < uncertain_samples[1].margin
            THEN heapreplace(uncertain_samples, item)
            ELSE uncertain_samples)

\* sorted(items, key = margin): a stable sort
RECURSIVE SortedByMargin(_)
SortedByMargin(items) ==
    IF items = <<>> THEN <<>>
    ELSE LET rest == SortedByMargin(SubSeq(items, 1, Len(items) - 1))
             x == items[Len(items)]
             n == Cardinality({j \in DOMAIN rest : rest[j].margin <= x.margin})
         IN SubSeq(rest, 1, n) \o <<x>> \o SubSeq(rest, n + 1, Len(rest))

select_uncertain_samples(cases, k) ==
    LET heap == SortedByMargin(SelectLoop(cases, k, 1, <<>>))
    IN [i \in DOMAIN heap |-> heap[i].case]

\* the lists of pairwise different cases, of length 0..MaxSamples
SampleLists ==
    {l \in UNION {[1..n -> SampleCases] : n \in 0..MaxSamples} :
        \A i, j \in DOMAIN l : i # j => l[i] # l[j]}

\* one call of select_uncertain_samples(sample_cases, top_k)
SelectUncertainSamples ==
    /\ ~selected.done
    /\ selected' = [done |-> TRUE,
                    samples |-> select_uncertain_samples(sample_cases, top_k)]
    /\ UNCHANGED <<sample_cases, top_k, regVars, last, ledgerVars, poolVars,
                   versionVars, allocVars,
                   jobVars, cfgVars, quotaVars>>

InitSelect ==
    /\ sample_cases \in SampleLists
    /\ top_k \in 1..MaxTopK
    /\ selected = NotSelected
    /\ IdleVersion
    /\ IdleAlloc
    /\ IdleJobs
    /\ IdleConfig
    /\ IdleQuota
    /\ registry = EmptyRegistry
    /\ files = {}
    /\ production_file = None
    /\ events = <<>>
    /\ clock = 0
    /\ retrain = IdleRetrain
    /\ last = NoCall
    /\ ledger = <<>>
    /\ handlers = <<>>
    /\ uploads = 0
    /\ calls = 0
    /\ pool = <<>>
    /\ callers = <<>>

NextSelect == SelectUncertainSamples

SpecSelect == InitSelect /\ [][NextSelect]_vars

\* the min(k, |cases|) cases of smallest margin, ties in input order
SmallestMargins(cases, k) ==
    LET all == SortedByMargin([i \in DOMAIN cases |-> HeapItem(cases[i], i - 1)])
        n == IF k < Len(cases) THEN k ELSE Len(cases)
    IN [i \in 1..n |-> all[i].case]

\* C11: select_uncertain_samples(cases, k) with k >= 1 returns the min(k,
\* |cases|) cases of smallest case margin, in ascending margin order with ties
\* in input order, each carrying margin and uncertainty_score = 1 - margin.
C11_SmallestMargins ==
    selected.done => selected.samples = SmallestMargins(sample_cases, top_k)

\* top-1 confidence minus top-2 confidence; 1.0 with fewer than two
\* predictions
TopTwoGap(p) ==
    IF Len(p) < 2 THEN 100
    ELSE LET gaps == {p[i] - p[j] : i, j \in DOMAIN p}
         IN CHOOSE g \in gaps :
               \E i, j \in DOMAIN p :
                  /\ i # j
                  /\ g = p[i] - p[j]
                  /\ \A k \in DOMAIN p : p[k] <= p[i]
                  /\ \A k \in DOMAIN p \ {i} : p[k] <= p[j]

MinOf(S) == CHOOSE m \in S : \A n \in S : m <= n

\* the number of predictions on the images of a case
RECURSIVE ImagePredictions(_)
ImagePredictions(images) ==
    IF images = <<>> THEN 0
    ELSE Len(Head(images)) + ImagePredictions(Tail(images))

\* the margin of a case that falls back to the case-level predictions when
\* its images bear fewer than two predictions
MarginWithFallback(case) ==
    IF ImagePredictions(case.images) >= 2
    THEN MinOf({TopTwoGap(case.images[i]) : i \in DOMAIN case.images})
    ELSE TopTwoGap(case.predictions)

\* the margin of a case that falls back to the case-level predictions only
\* when it has no image
MarginOfImages(case) ==
    IF case.images # <<>>
    THEN MinOf({TopTwoGap(case.images[i]) : i \in DOMAIN case.images})
    ELSE TopTwoGap(case.predictions)

\* C30 as stated: a case's margin is the minimum over its images of (top-1
\* confidence - top-2 confidence); a case with fewer than two image
\* predictions falls back to its case-level predictions; with fewer than two
\* predictions overall the margin is 1.0.
C30_MarginAsStated ==
    selected.done =>
        \A i \in DOMAIN selected.samples :
            selected.samples[i].margin = MarginWithFallback(selected.samples[i])

\* C30: a case's margin is the minimum over its images of (top-1 confidence
\* - top-2 confidence), an image with fewer than two predictions counting as
\* 1.0; only a case with no image at all falls back to its case-level
\* predictions, and with fewer than two of those its margin is 1.0.
C30_CaseMargin ==
    selected.done =>
        \A i \in DOMAIN selected.samples :
            selected.samples[i].margin = MarginOfImages(selected.samples[i])

\* the sampler has scored a case of two images and a case whose only image
\* bears a single prediction beside two case-level predictions
C30_Witness ==
    /\ selected.done
    /\ \E i \in DOMAIN selected.samples :
          /\ Len(selected.samples[i].images) = 2
          /\ selected.samples[i].margin < 100
    /\ \E i \in DOMAIN selected.samples :
          /\ ImagePredictions(selected.samples[i].images) = 1
          /\ Len(selected.samples[i].predictions) >= 2
          /\ selected.samples[i].margin = 100


----------------------------------------------------------------------------
(* model_registry.py: generate_version_id and the registry operations that  *)
(* may happen between two calls of it, all on one calendar day               *)

\* generate_version_id()
GenerateVersionId ==
    /\ Len(generated) < MaxGenerated
    /\ generate_version_id(registry) <= MaxSeq
    /\ generated' = Append(generated, generate_version_id(registry))
    /\ UNCHANGED <<regVars, last, ledgerVars, poolVars, selectVars, allocVars,
                   jobVars, cfgVars, quotaVars>>

\* register_model(version_id, ...) of an id generate_version_id returned
RegisterGenerated(v) ==
    /\ v \in Range(generated)
    /\ clock < MaxClock
    /\ registry' = register_model(registry, v, CandidatePath(v, PendingName),
                                  TRAINING, clock)
    /\ clock' = clock + 1
    /\ UNCHANGED <<files, production_file, events, retrain, last,
                   ledgerVars, poolVars, extVars>>

InitVersionId == InitRegistry

NextVersionId ==
    \/ GenerateVersionId
    \/ \E v \in Versions : RegisterGenerated(v)
    \/ \E v \in Versions : DeleteModel(v)

SpecVersionId == InitVersionId /\ [][NextVersionId]_vars

\* C15: within one calendar day the ids generate_version_id returns are
\* strictly increasing, whatever registry operations (register_model,
\* delete_model, or none) happen between the calls.
C15_StrictlyIncreasing ==
    \A i, j \in DOMAIN generated : i < j => generated[i] < generated[j]

\* C36: no two retrain runs register the same version_id:
\* generate_version_id never returns an id that is present in the registry,
\* and two runs whose id allocation (generate_version_id) and registration
\* (register_model) steps interleave still end up with distinct ids and
\* distinct registry entries.
C36_DistinctRuns ==
    [][GenerateVersionId
       => /\ ~HasModel(registry, generated'[Len(generated')])
          /\ generated'[Len(generated')] \notin Range(generated)]_vars


----------------------------------------------------------------------------
(* back.py: the per-user case-id allocator (case_counter.json) *)

CASE_ID_START == 10000

\* str(n) of the case ids in reach; int(s) is its inverse
CaseIdText ==
    (9999 :> "9999") @@ (10000 :> "10000") @@ (10001 :> "10001")
    @@ (10002 :> "10002") @@ (10003 :> "10003") @@ (10004 :> "10004")

CaseIdValue(s) == CHOOSE n \in DOMAIN CaseIdText : CaseIdText[n] = s

Allocators == {"a1", "a2"}
ReleaseIds == {"10000", "10001"}

IdleAllocator ==
    [pc |-> "idle", op |-> "none", user |-> NoValue, last_id |-> None,
     case_id |-> NoValue]

\* the answer of /cases/next-id ({case_id}) or /cases/release-id ({status, reason})
Answer(op, case_id, status, reason) ==
    [op |-> op, case_id |-> case_id, status |-> status, reason |-> reason]

\* _read_user_case_counter: None when the file is missing
read_user_case_counter(u) == counters[u]

\* _max_case_id_from_user_metadata: None when no entry carries an id >= CASE_ID_START
max_case_id_from_user_metadata(entries) ==
    LET ids == {CaseIdValue(entries[i].case_id) : i \in DOMAIN entries}
        valid == {n \in ids : n >= CASE_ID_START}
    IN IF valid = {} THEN None
       ELSE CHOOSE n \in valid : \A m \in valid : m <= n

\* any(entry.get("case_id") == case_id for entry in entries)
case_in_use_Never(entries, case_id) == FALSE

case_in_use(entries, case_id) ==
    \E i \in DOMAIN entries : entries[i].case_id = case_id

\* max(last_id + 1, CASE_ID_START)
next_id(last_id) ==
    IF last_id + 1 > CASE_ID_START THEN last_id + 1 ELSE CASE_ID_START

\* max(last_id - 1, CASE_ID_START - 1)
next_last_id_Keep(last_id) == last_id

next_last_id(last_id) ==
    IF last_id - 1 > CASE_ID_START - 1 THEN last_id - 1 ELSE CASE_ID_START - 1

\* with _CASE_ID_LOCK: the lock can be taken
CaseIdLockFree_Ignored == TRUE

CaseIdLockFree == case_id_lock = NoHolder

\* _next_case_id_for_user up to the write: take the lock, read the counter,
\* fall back to the largest id of the user's ledger
NextIdRead(h, u) ==
    /\ allocators[h].pc = "idle"
    /\ calls < MaxRequests
    /\ CaseIdLockFree
    /\ case_id_lock' = h
    /\ calls' = calls + 1
    /\ LET counter == read_user_case_counter(u)
           from_ledger == max_case_id_from_user_metadata(ledger[u])
           last_id == IF counter # None THEN counter
                      ELSE IF from_ledger # None THEN from_ledger
                      ELSE CASE_ID_START - 1
       IN allocators' = [allocators EXCEPT ![h] =
             [pc |-> "write", op |-> "next_id", user |-> u, last_id |-> last_id,
              case_id |-> NoValue]]
    /\ UNCHANGED <<counters, answers, ledger, handlers, uploads, regVars, last,
                   poolVars, selectVars, versionVars,
                   jobVars, cfgVars, quotaVars>>

\* _write_user_case_counter(user_id, next_id), leave the lock, answer
NextIdWrite(h) ==
    /\ allocators[h].pc = "write" /\ allocators[h].op = "next_id"
    /\ next_id(allocators[h].last_id) \in DOMAIN CaseIdText
    /\ counters' = [counters EXCEPT ![allocators[h].user] =
                       next_id(allocators[h].last_id)]
    /\ answers' = [answers EXCEPT ![allocators[h].user] =
          Append(@, Answer("next_id", CaseIdText[next_id(allocators[h].last_id)],
                           "ok", NoValue))]
    /\ case_id_lock' = NoHolder
    /\ allocators' = [allocators EXCEPT ![h] = IdleAllocator]
    /\ UNCHANGED <<ledgerVars, regVars, last, poolVars, selectVars, versionVars,
                   jobVars, cfgVars, quotaVars>>

\* release_case_id up to the write: take the lock, read the counter and the
\* user's ledger; a refusal answers at once and leaves the lock
ReleaseRead(h, u, case_id) ==
    LET last_id == read_user_case_counter(u)
        refuse(reason) ==
            /\ answers' = [answers EXCEPT ![u] =
                  Append(@, Answer("release", case_id, "skipped", reason))]
            /\ UNCHANGED <<allocators, case_id_lock>>
    IN
    /\ allocators[h].pc = "idle"
    /\ calls < MaxRequests
    /\ CaseIdLockFree
    /\ calls' = calls + 1
    /\ IF last_id = None THEN refuse("missing_counter")
       ELSE IF CaseIdText[last_id] # case_id THEN refuse("counter_mismatch")
       ELSE IF case_in_use(ledger[u], case_id) THEN refuse("case_in_use")
       ELSE /\ case_id_lock' = h
            /\ allocators' = [allocators EXCEPT ![h] =
                  [pc |-> "write", op |-> "release", user |-> u,
                   last_id |-> last_id, case_id |-> case_id]]
            /\ UNCHANGED answers
    /\ UNCHANGED <<counters, ledger, handlers, uploads, regVars, last,
                   poolVars, selectVars, versionVars,
                   jobVars, cfgVars, quotaVars>>

\* _write_user_case_counter(user_id, next_last_id), leave the lock, answer ok
ReleaseWrite(h) ==
    /\ allocators[h].pc = "write" /\ allocators[h].op = "release"
    /\ counters' = [counters EXCEPT ![allocators[h].user] =
                       next_last_id(allocators[h].last_id)]
    /\ answers' = [answers EXCEPT ![allocators[h].user] =
          Append(@, Answer("release", allocators[h].case_id, "ok", NoValue))]
    /\ case_id_lock' = NoHolder
    /\ allocators' = [allocators EXCEPT ![h] = IdleAllocator]
    /\ UNCHANGED <<ledgerVars, regVars, last, poolVars, selectVars, versionVars,
                   jobVars, cfgVars, quotaVars>>

InitAlloc ==
    /\ counters = [u \in LedgerUsers |-> None]
    /\ case_id_lock = NoHolder
    /\ allocators = [h \in Allocators |-> IdleAllocator]
    /\ answers = [u \in LedgerUsers |-> <<>>]
    /\ ledger = [u \in LedgerUsers |-> <<>>]
    /\ handlers = <<>>
    /\ uploads = 0
    /\ calls = 0
    /\ IdleSelect
    /\ IdleVersion
    /\ IdleJobs
    /\ IdleConfig
    /\ IdleQuota
    /\ registry = EmptyRegistry
    /\ files = {}
    /\ production_file = None
    /\ events = <<>>
    /\ clock = 0
    /\ retrain = IdleRetrain
    /\ last = NoCall
    /\ pool = <<>>
    /\ callers = <<>>

NextAlloc ==
    \/ \E h \in Allocators, u \in LedgerUsers : NextIdRead(h, u)
    \/ \E h \in Allocators : NextIdWrite(h)
    \/ \E h \in Allocators, u \in LedgerUsers, c \in ReleaseIds : ReleaseRead(h, u, c)
    \/ \E h \in Allocators : ReleaseWrite(h)
    \/ \E u \in LedgerUsers, c \in Cases : CheckImage(u, c, FALSE)

SpecAlloc == InitAlloc /\ [][NextAlloc]_vars


\* C33: allocate_case_id (_next_case_id_for_user) never returns a case_id that
\* an entry in that user's ledger already references, after any sequence of
\* allocations, releases, image uploads and summary posts, including uploads
\* that carry a client-chosen case_id instead of an allocated one.
C33_AllocatedIdUnused ==
    [][\A h \in Allocators :
          NextIdWrite(h)
          => LET u == allocators[h].user
             IN ~\E i \in DOMAIN ledger[u] :
                    ledger[u][i].case_id = answers'[u][Len(answers'[u])].case_id]_vars

\* the positions of the /cases/next-id answers and of the successful releases
NextIdAnswers(u) == {i \in DOMAIN answers[u] : answers[u][i].op = "next_id"}

ReleasedAt(u) ==
    {i \in DOMAIN answers[u] :
        answers[u][i].op = "release" /\ answers[u][i].status = "ok"}

\* C16: for each user the ids allocate_case_id returns, parallel handlers
\* included, are >= CASE_ID_START and strictly increasing (hence pairwise
\* distinct) as long as no release_case_id succeeds in between.
C16_DistinctIncreasing ==
    \A u \in LedgerUsers :
       /\ \A i \in NextIdAnswers(u) :
             CaseIdValue(answers[u][i].case_id) >= CASE_ID_START
       /\ \A i, j \in NextIdAnswers(u) :
             (i < j /\ ~\E k \in ReleasedAt(u) : i < k /\ k < j) =>
                CaseIdValue(answers[u][i].case_id)
                   < CaseIdValue(answers[u][j].case_id)

\* one user got two ids with no successful release in between
C16_Witness ==
    \E u \in LedgerUsers : \E i, j \in NextIdAnswers(u) :
       /\ i < j
       /\ ~\E k \in ReleasedAt(u) : i < k /\ k < j

LastAnswer(u) == answers'[u][Len(answers'[u])]

\* C18: release_case_id(user, c) goes on to decrement the counter and answer
\* ok only if c equals the current counter and no entry of the user's ledger
\* references c; otherwise it answers missing_counter, counter_mismatch or
\* case_in_use respectively and leaves the counter and the ledger unchanged.
C18_ReleaseGuarded ==
    [][/\ \A h \in Allocators, u \in LedgerUsers, c \in ReleaseIds :
            (allocators[h].pc = "idle" /\ calls' # calls /\ ReleaseRead(h, u, c)) =>
               LET matches == counters[u] # None /\ CaseIdText[counters[u]] = c
                   referenced == \E e \in Range(ledger[u]) : e.case_id = c
               IN /\ allocators'[h].pc = "write" <=> (matches /\ ~referenced)
                  /\ allocators'[h].pc # "write" =>
                        /\ LastAnswer(u).op = "release"
                        /\ LastAnswer(u).status = "skipped"
                        /\ LastAnswer(u).reason =
                              IF counters[u] = None THEN "missing_counter"
                              ELSE IF ~matches THEN "counter_mismatch"
                              ELSE "case_in_use"
                  /\ counters' = counters
                  /\ ledger' = ledger
       /\ \A h \in Allocators :
            (allocators[h].op = "release" /\ ReleaseWrite(h)) =>
               LET u == allocators[h].user IN
               /\ LastAnswer(u) = Answer("release", allocators[h].case_id, "ok", NoValue)
               /\ counters'[u] = counters[u] - 1
               /\ CaseIdText[counters[u]] = allocators[h].case_id
               /\ \A w \in LedgerUsers \ {u} : counters'[w] = counters[w]
               /\ ledger' = ledger]_vars

\* a release was refused because the user's ledger references the id
C18_Witness ==
    \E u \in LedgerUsers : \E i \in DOMAIN answers[u] :
       /\ answers[u][i] = Answer("release", "10000", "skipped", "case_in_use")
       /\ \E e \in Range(ledger[u]) : e.case_id = "10000"

----------------------------------------------------------------------------
(* back.py: the two retrain endpoints. uvicorn.run serves the application   *)
(* on one event loop: while trigger_retrain runs retrain_model inside its   *)
(* handler no other handler runs; the processes POST /model/retrain starts  *)
(* run beside the server                                                    *)

RETRAIN_MIN_NEW_LABELS == 20

\* the counts the threshold tests of the two endpoints may meet
LabelCounts == {RETRAIN_MIN_NEW_LABELS - 1, RETRAIN_MIN_NEW_LABELS}

\* what a retrain endpoint answered
RetrainReply(op, code, status) == [op |-> op, code |-> code, status |-> status]

\* check_retrain_threshold on the unused-label count
check_retrain_threshold(current) == current >= RETRAIN_MIN_NEW_LABELS

\* POST /model/retrain: subprocess.Popen(["python", retrain_model.py, ...])
RetrainModelEndpoint(user_role, total_rejected_labeled) ==
    /\ ~inline
    /\ IF user_role # "admin"
       THEN /\ last' = RetrainReply("retrain_model_endpoint", 403, "forbidden")
            /\ UNCHANGED <<jobs, launched>>
       ELSE IF total_rejected_labeled < RETRAIN_MIN_NEW_LABELS
       THEN /\ last' = RetrainReply("retrain_model_endpoint", 200, "skipped")
            /\ UNCHANGED <<jobs, launched>>
       ELSE /\ launched < MaxLaunched
            /\ launched' = launched + 1
            /\ jobs' = jobs \cup {launched + 1}
            /\ last' = RetrainReply("retrain_model_endpoint", 200,
                                    "retraining_started")
    /\ UNCHANGED <<inline, regVars, ledgerVars, poolVars, selectVars,
                   versionVars, allocVars, cfgVars, quotaVars>>

\* a process started by POST /model/retrain ends: run as a script the module
\* has no entry point, and its relative imports raise ImportError
ProcessExit(pid) ==
    /\ pid \in jobs
    /\ jobs' = jobs \ {pid}
    /\ UNCHANGED <<inline, launched, last, regVars, ledgerVars, poolVars,
                   selectVars, versionVars, allocVars, cfgVars, quotaVars>>

\* POST /admin/retrain/trigger up to the call of retrain_model
TriggerRetrain(user_role, force, current) ==
    /\ ~inline
    /\ IF user_role # "admin"
       THEN /\ last' = RetrainReply("trigger_retrain", 403, "forbidden")
            /\ UNCHANGED <<inline, launched>>
       ELSE IF ~force /\ ~check_retrain_threshold(current)
       THEN /\ last' = RetrainReply("trigger_retrain", 200, "skipped")
            /\ UNCHANGED <<inline, launched>>
       ELSE /\ launched < MaxLaunched
            /\ launched' = launched + 1
            /\ inline' = TRUE
            /\ UNCHANGED last
    /\ UNCHANGED <<jobs, regVars, ledgerVars, poolVars, selectVars,
                   versionVars, allocVars, cfgVars, quotaVars>>

\* retrain_model returned to trigger_retrain, which answers
TriggerRetrainReturn(success) ==
    /\ inline
    /\ inline' = FALSE
    /\ last' = IF success THEN RetrainReply("trigger_retrain", 200, "ok")
               ELSE RetrainReply("trigger_retrain", 500, "error")
    /\ UNCHANGED <<jobs, launched, regVars, ledgerVars, poolVars, selectVars,
                   versionVars, allocVars, cfgVars, quotaVars>>

InitJobs ==
    /\ IdleJobs
    /\ IdleConfig
    /\ IdleQuota
    /\ IdleSelect
    /\ IdleVersion
    /\ IdleAlloc
    /\ registry = EmptyRegistry
    /\ files = {}
    /\ production_file = None
    /\ events = <<>>
    /\ clock = 0
    /\ retrain = IdleRetrain
    /\ last = NoCall
    /\ ledger = <<>>
    /\ handlers = <<>>
    /\ uploads = 0
    /\ calls = 0
    /\ pool = <<>>
    /\ callers = <<>>

NextJobs ==
    \/ \E r \in Roles, n \in LabelCounts : RetrainModelEndpoint(r, n)
    \/ \E p \in 1..MaxLaunched : ProcessExit(p)
    \/ \E r \in Roles, f \in BOOLEAN, n \in LabelCounts : TriggerRetrain(r, f, n)
    \/ \E ok \in BOOLEAN : TriggerRetrainReturn(ok)

SpecJobs == InitJobs /\ [][NextJobs]_vars

\* the retrain runs in progress: the live processes and the handler's run
RetrainsRunning == Cardinality(jobs) + (IF inline THEN 1 ELSE 0)

\* C24: at most one retrain job runs at any time: a retrain request (POST
\* /admin/retrain/trigger or POST /model/retrain) arriving while another
\* retrain is in progress does not start a second concurrent training run.
C24_OneRetrainJob == RetrainsRunning <= 1

----------------------------------------------------------------------------
(* training_config.py and retrain_model.py: the training configuration of a *)
(* retrain run; the floats are written as strings                            *)

Fields ==
    {"epochs", "batch_size", "learning_rate", "optimizer", "dropout",
     "augmentation_applied"}

DEFAULT_TRAINING_CONFIG ==
    [epochs |-> 10, batch_size |-> 16, learning_rate |-> "1e-4",
     optimizer |-> "Adam", dropout |-> "0.3", augmentation_applied |-> TRUE]

RETRAIN_DEFAULT_EPOCHS == 10
RETRAIN_DEFAULT_BATCH_SIZE == 16

\* dict.update: the keys of e override those of d
Update(d, e) ==
    [f \in DOMAIN d \cup DOMAIN e |-> IF f \in DOMAIN e THEN e[f] ELSE d[f]]

\* dict.get(key, default)
Get(d, key, default) == IF key \in DOMAIN d THEN d[key] ELSE default

\* load_config(): the defaults, overridden by the file when there is one
load_config(file) ==
    IF ~file.present THEN DEFAULT_TRAINING_CONFIG
    ELSE Update(DEFAULT_TRAINING_CONFIG, file.cfg)

\* save_config(config_dict): the file written
save_config(config_dict) == Config(Update(DEFAULT_TRAINING_CONFIG, config_dict))

\* the hyperparameters retrain_model trains with
training_hyperparameters(training_cfg, file) ==
    LET loaded == IF ~training_cfg.present THEN load_config(file)
                  ELSE training_cfg.cfg
        with_epochs == IF RETRAIN_DEFAULT_EPOCHS > 0
                       THEN Update(loaded, [epochs |-> RETRAIN_DEFAULT_EPOCHS])
                       ELSE loaded
        cfg == IF RETRAIN_DEFAULT_BATCH_SIZE > 0
               THEN Update(with_epochs,
                           [batch_size |-> RETRAIN_DEFAULT_BATCH_SIZE])
               ELSE with_epochs
    IN [epochs |-> Get(cfg, "epochs", 10),
        batch_size |-> Get(cfg, "batch_size", 16),
        learning_rate |-> Get(cfg, "learning_rate", "1e-4"),
        optimizer |-> Get(cfg, "optimizer", "Adam"),
        dropout |-> Get(cfg, "dropout", "0.3"),
        augmentation_applied |-> Get(cfg, "augmentation_applied", TRUE)]

\* the configurations an admin uploads: the fields that are not None
UploadedConfigs ==
    { [epochs |-> 20],
      [epochs |-> 20, batch_size |-> 32],
      [dropout |-> "0.5"],
      [augmentation_applied |-> FALSE] }
    \cup { [optimizer |-> o, learning_rate |-> l] :
              o \in {"Adam", "SGD", "RMSprop"}, l \in {"1e-4", "1e-3"} }

\* the training_cfg arguments of retrain_model
CallerConfigs ==
    { NoConfig,
      Config(<<>>),
      Config([epochs |-> 30]),
      Config([learning_rate |-> "1e-2"]),
      Config([batch_size |-> 8, optimizer |-> "AdamW"]),
      Config([epochs |-> 30, batch_size |-> 8, learning_rate |-> "1e-2",
              optimizer |-> "AdamW", dropout |-> "0.1",
              augmentation_applied |-> FALSE]) }

\* POST /admin/training-config by an admin, the payload valid
UpdateTrainingConfig(new_config) ==
    /\ cfg_file' = save_config(new_config)
    /\ UNCHANGED <<cfg_caller, cfg_used, regVars, last, ledgerVars, poolVars,
                   selectVars, versionVars, allocVars, jobVars, quotaVars>>

\* retrain_model(training_cfg = ...) up to the hyperparameters
RetrainConfig(training_cfg) ==
    /\ cfg_caller' = training_cfg
    /\ cfg_used' = Config(training_hyperparameters(training_cfg, cfg_file))
    /\ UNCHANGED <<cfg_file, regVars, last, ledgerVars, poolVars,
                   selectVars, versionVars, allocVars, jobVars, quotaVars>>

InitConfig ==
    /\ IdleConfig
    /\ IdleQuota
    /\ IdleJobs
    /\ IdleSelect
    /\ IdleVersion
    /\ IdleAlloc
    /\ registry = EmptyRegistry
    /\ files = {}
    /\ production_file = None
    /\ events = <<>>
    /\ clock = 0
    /\ retrain = IdleRetrain
    /\ last = NoCall
    /\ ledger = <<>>
    /\ handlers = <<>>
    /\ uploads = 0
    /\ calls = 0
    /\ pool = <<>>
    /\ callers = <<>>

NextConfig ==
    \/ \E d \in UploadedConfigs : UpdateTrainingConfig(d)
    \/ \E c \in CallerConfigs : RetrainConfig(c)

SpecConfig == InitConfig /\ [][NextConfig]_vars

\* caller override > persisted > defaults, field by field
MergedConfig(caller, file) ==
    [f \in Fields |->
        IF caller.present /\ f \in DOMAIN caller.cfg THEN caller.cfg[f]
        ELSE IF file.present /\ f \in DOMAIN file.cfg THEN file.cfg[f]
        ELSE DEFAULT_TRAINING_CONFIG[f]]

\* C28: the training configuration a retrain run uses is the merge caller
\* override > persisted > defaults: for every field (epochs, batch_size,
\* learning_rate, optimizer, dropout, augmentation_applied) the value supplied
\* by the caller is used, else the persisted value, else the default.
C28_ConfigMerge ==
    [][\A c \in CallerConfigs :
          RetrainConfig(c) => cfg_used'.cfg = MergedConfig(c, cfg_file)]_vars

----------------------------------------------------------------------------
(* back.py and retrain_model.py: POST /admin/retrain/trigger by an admin,   *)
(* retrain_model run inside the handler                                      *)

\* trigger_retrain up to generate_version_id in retrain_model
TriggerRetrainCall(force, current) ==
    /\ retrain.pc = "idle"
    /\ IF ~force /\ ~check_retrain_threshold(current)
       THEN /\ last' = RetrainReply("trigger_retrain", 200, "skipped")
            /\ UNCHANGED retrain
       ELSE /\ generate_version_id(registry) <= MaxSeq
            /\ retrain' = [IdleRetrain EXCEPT
                             !.pc = "collect",
                             !.version_id = generate_version_id(registry)]
            /\ UNCHANGED last
    /\ UNCHANGED <<registry, files, production_file, events, clock,
                   ledgerVars, poolVars, extVars>>

\* collect_labeled_samples returned new_samples samples: the
\* RETRAIN_MIN_NEW_LABELS test, and the HTTPException trigger_retrain raises
\* when retrain_model returns success = False
TriggerCollect(new_samples) ==
    /\ retrain.pc = "collect"
    /\ IF new_samples < RETRAIN_MIN_NEW_LABELS
       THEN /\ retrain' = IdleRetrain
            /\ last' = RetrainReply("trigger_retrain", 500, "error")
       ELSE /\ retrain' = [retrain EXCEPT !.pc = "register"]
            /\ UNCHANGED last
    /\ UNCHANGED <<registry, files, production_file, events, clock,
                   ledgerVars, poolVars, extVars>>

InitTrigger ==
    /\ pool \in SerialPools
    /\ callers = <<>>
    /\ registry = EmptyRegistry
    /\ files = {}
    /\ production_file = None
    /\ events = <<>>
    /\ clock = 0
    /\ retrain = IdleRetrain
    /\ last = NoCall
    /\ ledger = <<>>
    /\ handlers = <<>>
    /\ uploads = 0
    /\ calls = 0
    /\ IdleSelect
    /\ IdleVersion
    /\ IdleAlloc
    /\ IdleJobs
    /\ IdleConfig
    /\ IdleQuota

NextTrigger ==
    \/ \E f \in BOOLEAN, n \in LabelCounts : TriggerRetrainCall(f, n)
    \/ \E n \in LabelCounts : TriggerCollect(n)
    \/ RetrainRegister
    \/ RetrainLogStarted
    \/ \E ok \in BOOLEAN, acc \in Metrics : RetrainTrain(ok, acc)
    \/ RetrainLoad
    \/ RetrainUpdate
    \/ RetrainEnsure
    \/ RetrainMark
    \/ RetrainLogCompleted
    \/ RetrainLogFailed
    \/ RetrainSetFailed

SpecTrigger == InitTrigger /\ [][NextTrigger]_vars

\* C29: a retrain whose collected sample count equals RETRAIN_MIN_NEW_LABELS
\* proceeds to register a version with status training; with one sample
\* fewer it fails with a bad_input (400) error and success = false, leaving
\* the registry and the label pool unchanged.
C29_ThresholdBoundary ==
    [][/\ TriggerCollect(RETRAIN_MIN_NEW_LABELS)
          => retrain'.pc = "register"
       /\ RetrainRegister
          => StatusOf(registry', retrain.version_id) = TRAINING
       /\ TriggerCollect(RETRAIN_MIN_NEW_LABELS - 1)
          => /\ last'.code = 400
             /\ last'.status = "error"
             /\ registry' = registry
             /\ pool' = pool]_vars

----------------------------------------------------------------------------
(* event_log.py: the typed helpers and the reads of GET /admin/events *)

\* the types the typed helpers write
EventTypes == {"training_started", "training_completed", "model_promoted"}

\* the limit parameter of GET /admin/events; 50 is its default
EventLimits == {0, 1, 2, 50}

\* events[:limit] of Python for limit >= 0
FirstN(s, n) == IF Len(s) <= n THEN s ELSE SubSeq(s, 1, n)

\* get_recent_events(limit)
get_recent_events(log, limit) == FirstN(Reverse(log), limit)

\* get_events_by_type(event_type, limit)
get_events_by_type(log, event_type, limit) ==
    FirstN(Reverse(SelectSeq(log, LAMBDA e : e.type = event_type)), limit)

\* log_training_started, log_training_completed, log_model_promoted
LogTyped(type, v) ==
    /\ Len(events) < MaxEvents
    /\ events' = log_event(events, type, v, None)
    /\ UNCHANGED <<registry, files, production_file, clock, retrain, last,
                   ledgerVars, poolVars, extVars>>

\* GET /admin/events
GetEvents(limit, event_type) ==
    /\ last' = [op |-> "get_events",
                events |-> IF event_type # NoValue
                           THEN get_events_by_type(events, event_type, limit)
                           ELSE get_recent_events(events, limit)]
    /\ UNCHANGED <<regVars, ledgerVars, poolVars, extVars>>

InitEvents == InitConfig

NextEvents ==
    \/ \E t \in EventTypes : LogTyped(t, 1)
    \/ \E n \in EventLimits, t \in EventTypes \cup {NoValue} : GetEvents(n, t)

SpecEvents == InitEvents /\ [][NextEvents]_vars

\* C32: the event log only grows by appending: after any sequence of
\* log_event calls and typed helpers every earlier record is still present,
\* unchanged and in its original relative order; recent(limit) and
\* by_type(type, limit) return the newest limit (matching) records, newest
\* first.
C32_AppendOnly ==
    [][/\ IsPrefix(events, events')
       /\ last'.op = "get_events" =>
            \A n \in EventLimits, t \in EventTypes \cup {NoValue} :
               GetEvents(n, t)
               => last'.events =
                     NewestFirst(SelectSeq(events,
                                    LAMBDA e : t # NoValue => e.type = t), n)]_vars

\* the two newest records of one type were read from a log that holds a
\* newer record of another type
C32_Witness ==
    /\ last.op = "get_events"
    /\ Len(last.events) = 2
    /\ Len(events) >= 3
    /\ last.events[1].type = last.events[2].type
    /\ events[Len(events)].type # last.events[1].type

----------------------------------------------------------------------------
(* retrain_model.py: the samples a retrain run trains on and the labels it  *)
(* marks used, labels being submitted meanwhile                              *)

\* the labels of config.LABEL_MAP and the image files that exist
LABEL_MAP == {"mel", "nv"}
ImageFiles == {"p1"}

\* add_label requests: image paths, label, user
LabelRequests ==
    {<<(<<"p1">>), "mel", "user1">>,
     <<(<<"p2">>), "nv", "user2">>,
     <<(<<"p1">>), "other", "user2">>}

\* collect_labeled_samples: the (case, image) pairs of the pool whose label
\* is known and whose file exists
collect_labeled_samples(labels) ==
    {<<labels[i].case_id, p>> :
        i \in {j \in DOMAIN labels : labels[j].correct_label \in LABEL_MAP},
        p \in ImageFiles} \cap
    UNION {{<<labels[i].case_id, p>> : p \in Range(labels[i].image_paths)} :
             i \in DOMAIN labels}

\* collect_labeled_samples .. the RETRAIN_MIN_NEW_LABELS test; the samples
\* are the training set of the run
CollectSamples(enough) ==
    /\ retrain.pc = "collect"
    /\ IF ~enough \/ collect_labeled_samples(pool) = {}
       THEN /\ retrain' = IdleRetrain
            /\ UNCHANGED last
       ELSE /\ retrain' = [retrain EXCEPT !.pc = "register"]
            /\ last' = [op |-> "collect_labeled_samples",
                        version_id |-> retrain.version_id,
                        samples |-> collect_labeled_samples(pool)]
    /\ UNCHANGED <<registry, files, production_file, events, clock,
                   ledgerVars, poolVars, extVars>>

\* labels_pool.add_label, called by the label endpoint at any time
SubmitLabel(case_id, image_paths, correct_label, user_id) ==
    /\ calls < MaxCalls
    /\ clock < MaxClock
    /\ clock' = clock + 1
    /\ calls' = calls + 1
    /\ pool' = add_label(pool, case_id, image_paths, correct_label, user_id,
                         clock + 1)
    /\ UNCHANGED <<callers, registry, files, production_file, events, retrain,
                   last, ledger, handlers, uploads, extVars>>

InitMark == InitConfig

NextMark ==
    \/ \E a \in BOOLEAN : RetrainStart(a)
    \/ \E e \in BOOLEAN : CollectSamples(e)
    \/ RetrainRegister
    \/ RetrainLogStarted
    \/ \E ok \in BOOLEAN, acc \in Metrics : RetrainTrain(ok, acc)
    \/ RetrainLoad
    \/ RetrainUpdate
    \/ RetrainEnsure
    \/ RetrainMark
    \/ RetrainLogCompleted
    \/ RetrainLogFailed
    \/ RetrainSetFailed
    \/ \E c \in PoolCases, r \in LabelRequests : SubmitLabel(c, r[1], r[2], r[3])

SpecMark == InitMark /\ [][NextMark]_vars

\* C34: a label record is marked used by version v only if its samples were
\* part of v's training set: a record added to the pool while retrain v is
\* training, or filtered out of v's training set (unknown label or missing
\* image file), is still unused after v completes and still counts toward
\* the next retrain threshold.
C34_MarkedOnlyIfTrained ==
    [][RetrainMark =>
         \A i \in DOMAIN pool' :
            retrain.version_id \in Range(pool'[i].used_in_models)
            => /\ last.op = "collect_labeled_samples"
               /\ last.version_id = retrain.version_id
               /\ \E s \in last.samples : s[1] = pool'[i].case_id]_vars

----------------------------------------------------------------------------
(* retrain_model.py: _allocate_quota_per_class, the per-class herding quota *)

\* the classes in the order of the dict, each with its number of samples
ClassSizes ==
    UNION {[1..n -> 0..MaxClassSize] : n \in 0..MaxClasses}
Quotas == 0..MaxQuota

RECURSIVE SumOf(_)
SumOf(s) == IF s = <<>> THEN 0 ELSE Head(s) + SumOf(Tail(s))

\* the classes whose share sizes[k] / total * q is a whole number above zero:
\* the float product may come out one ulp below it ((1 / 49) * 49 < 1)
WholeShares(sizes, q) ==
    LET total == SumOf(sizes)
    IN {k \in DOMAIN sizes : sizes[k] * q > 0 /\ (sizes[k] * q) % total = 0}

\* int(raw[k]), with raw[k] below its whole value for the classes in low
IntRaw(sizes, q, low, k) ==
    LET total == SumOf(sizes)
    IN IF k \in low THEN (sizes[k] * q) \div total - 1
       ELSE (sizes[k] * q) \div total

\* raw[k] - int(raw[k]) in units of 1 / (2 * total)
Fraction(sizes, q, low, k) ==
    LET total == SumOf(sizes)
    IN IF k \in low THEN 2 * total - 1 ELSE 2 * ((sizes[k] * q) % total)

\* sorted(class_sizes.keys(), key = fraction, reverse = True): largest
\* fraction first, equal fractions in the order of the dict (stable sort)
Remainders(sizes, q, low) ==
    LET n == Len(sizes)
        key(k) == Fraction(sizes, q, low, k)
    IN CHOOSE p \in [1..n -> 1..n] :
          /\ \A i, j \in 1..n : i # j => p[i] # p[j]
          /\ \A i, j \in 1..n :
                i < j => \/ key(p[i]) > key(p[j])
                         \/ key(p[i]) = key(p[j]) /\ p[i] < p[j]

\* the while loop: one more for the next class that has room, until the
\* quota is assigned or i passes total_quota * 4
RECURSIVE Distribute(_, _, _, _, _, _)
Distribute(sizes, q, remainders, alloc, assigned, i) ==
    IF assigned < q /\ remainders # <<>>
    THEN LET k == remainders[(i % Len(remainders)) + 1]
             room == alloc[k] < sizes[k]
             alloc2 == IF room THEN [alloc EXCEPT ![k] = @ + 1] ELSE alloc
             assigned2 == IF room THEN assigned + 1 ELSE assigned
         IN IF i + 1 > q * 4 THEN alloc2
            ELSE Distribute(sizes, q, remainders, alloc2, assigned2, i + 1)
    ELSE alloc

\* min(class_sizes[k], int(raw[k])) for every class
FloorAlloc(sizes, q, low) ==
    [k \in DOMAIN sizes |->
        IF sizes[k] < IntRaw(sizes, q, low, k) THEN sizes[k]
        ELSE IntRaw(sizes, q, low, k)]

\* an allocation that stops after the floor step
_allocate_quota_per_class_Floor(sizes, q, low) ==
    IF q <= 0 \/ SumOf(sizes) <= 0 THEN [k \in DOMAIN sizes |-> 0]
    ELSE FloorAlloc(sizes, q, low)

_allocate_quota_per_class(sizes, q, low) ==
    IF q <= 0 \/ SumOf(sizes) <= 0 THEN [k \in DOMAIN sizes |-> 0]
    ELSE LET alloc == FloorAlloc(sizes, q, low)
         IN Distribute(sizes, q, Remainders(sizes, q, low), alloc, SumOf(alloc), 0)

\* per_class_quota = _allocate_quota_per_class(class_sizes, herding_target)
AllocateQuota(low) ==
    /\ per_class_quota = NoQuota
    /\ low \subseteq WholeShares(class_sizes, total_quota)
    /\ per_class_quota' = _allocate_quota_per_class(class_sizes, total_quota, low)
    /\ UNCHANGED <<class_sizes, total_quota, regVars, last, ledgerVars, poolVars,
                   selectVars, versionVars, allocVars, jobVars, cfgVars>>

InitQuota ==
    /\ registry = EmptyRegistry
    /\ files = {}
    /\ production_file = None
    /\ events = <<>>
    /\ clock = 0
    /\ retrain = IdleRetrain
    /\ last = NoCall
    /\ ledger = <<>>
    /\ handlers = <<>>
    /\ uploads = 0
    /\ calls = 0
    /\ pool = <<>>
    /\ callers = <<>>
    /\ IdleSelect
    /\ IdleVersion
    /\ IdleAlloc
    /\ IdleJobs
    /\ IdleConfig
    /\ class_sizes \in ClassSizes
    /\ total_quota \in Quotas
    /\ per_class_quota = NoQuota

NextQuota == \E low \in SUBSET (1..MaxClasses) : AllocateQuota(low)

SpecQuota == InitQuota /\ [][NextQuota]_vars

----------------------------------------------------------------------------
(* Properties of the quota allocation *)

Smaller(a, b) == IF a < b THEN a ELSE b

\* C40: _allocate_quota_per_class(class_sizes, q) returns per-class quotas
\* that sum to exactly min(q, total pool size), never exceed any class's pool
\* size, and for q <= total pool size differ from the exact proportional
\* share class_size * q / total by less than 1 (the share of a class of an
\* empty pool is not defined).
C40_QuotaAllocation ==
    per_class_quota # NoQuota
    => LET total == SumOf(class_sizes)
       IN /\ DOMAIN per_class_quota = DOMAIN class_sizes
          /\ SumOf(per_class_quota) = Smaller(total_quota, total)
          /\ \A k \in DOMAIN class_sizes : per_class_quota[k] <= class_sizes[k]
          /\ (total > 0 /\ total_quota <= total)
                => \A k \in DOMAIN class_sizes :
                      /\ per_class_quota[k] * total - class_sizes[k] * total_quota < total
                      /\ class_sizes[k] * total_quota - per_class_quota[k] * total < total

\* a quota below the pool size was shared out with a remainder: one class
\* got more than its exact share, another less
C40_Witness ==
    /\ per_class_quota # NoQuota
    /\ total_quota < SumOf(class_sizes)
    /\ \E k, j \in DOMAIN class_sizes :
          /\ per_class_quota[k] * SumOf(class_sizes) > class_sizes[k] * total_quota
          /\ per_class_quota[j] * SumOf(class_sizes) < class_sizes[j] * total_quota

====
